---- MODULE Spec2Model ----
(***************************************************************************)
(* Model of the vector-store orchestration of the QDrant provider          *)
(* (server/utils/vectorDbProviders/qdrant/index.js): document ingest       *)
(* (addDocumentToNamespace, processCachedVectors, batchInsertVectors,      *)
(* getOrCreateCollection), document deletion and similarity search.        *)
(*                                                                         *)
(* The specifications of the module:                                       *)
(*   Spec        one caller running addDocumentToNamespace and             *)
(*               deleteDocumentFromNamespace against one remote index;     *)
(*   SpecRace    two callers, interleaved at their await points;           *)
(*   SpecAdmin   one caller running ingest, deletion and reset;            *)
(*   SpecSearch  one performSimilaritySearch call at a time.               *)
(***************************************************************************)
EXTENDS Integers, Sequences, FiniteSets, TLC

(***************************************************************************)
(* Program constants.                                                      *)
(***************************************************************************)
EmbedBatchSize == 50
UpsertBatchSize == 100
DeleteBatchSize == 100
Retries == 3

(***************************************************************************)
(* Bounds of the model.                                                    *)
(***************************************************************************)
\* Operations one caller starts, one after the other, in one behaviour.
MaxCalls == 3
\* Operations two callers start in one behaviour, interleaved at their awaits.
MaxRaceCalls == 2
\* Chunks of a small document.
SmallDoc == 2
\* Chunks of a large document: more than two embedding batches and more than
\* one upsert batch.
BigDoc == 101

Procs == {"w1", "w2"}
NS == {"n1", "n2"}
DocIds == {"d1", "d2", "d3", "d4"}
NoPath == "null"
Paths == {"f1", "f2"}

\* The documents the callers ingest: what the splitter makes of the page
\* content (chunks), the source file the vectors are cached under, and whether
\* the metadata holds an id.
Documents ==
  [d \in DocIds |->
     CASE d = "d1" -> [chunks |-> SmallDoc, file |-> "f1", metaId |-> TRUE]
       [] d = "d2" -> [chunks |-> BigDoc, file |-> NoPath, metaId |-> TRUE]
       [] d = "d3" -> [chunks |-> 0, file |-> NoPath, metaId |-> TRUE]
       [] d = "d4" -> [chunks |-> SmallDoc, file |-> "f2", metaId |-> FALSE]]
\* Length of the vectors of the embedder configured first.
EmbedderDim == 3
\* The vector lengths of the embedders that can be configured.
Dims == {EmbedderDim, EmbedderDim + 1}

Min(a, b) == IF a < b THEN a ELSE b

\* uuidv4(): the k-th identifier generated by call number c. Identifiers of
\* different calls, and different identifiers of one call, never collide.
Uuid(c, k) == <<c, k>>

\* The identifiers c generated for positions lo..hi.
Uuids(c, lo, hi) == [k \in 1..(hi - lo + 1) |-> Uuid(c, lo + k - 1)]

Range(s) == {s[k] : k \in 1..Len(s)}

\* textSplitter.splitText(pageContent): the k-th chunk of the document's text.
Chunk(docId, k) == <<docId, k>>

\* A slice that runs one element into the next slice.
SliceOverlapping(s, i, size) == SubSeq(s, i + 1, Min(i + size + 1, Len(s)))

\* Array.prototype.slice(i, i + size) of a sequence, i counted from 0.
Slice(s, i, size) == SubSeq(s, i + 1, Min(i + size, Len(s)))

VARIABLES
  spc,            \* position of the performSimilaritySearch call
  req,            \* its arguments
  searchResults,  \* its local searchResults
  out,            \* what the call returned, or that it threw
  shist,          \* history of the call, read by the properties only
  collections,  \* remote index: namespace -> [exists, dim]
  points,       \* remote index: namespace -> set of points [id, text] in it
  index,        \* DocumentVectors table: sequence of rows [id, docId, vectorId]
  nextRow,      \* DocumentVectors autoincrement row id
  cache,        \* vector cache: source path -> [exists, chunks]
  pc,           \* caller -> position in the operation it runs
  call,         \* caller -> arguments, locals and outcome of its operation
  started,      \* number of operations started
  callers,      \* the callers of the behaviour
  dimension,    \* length of the vectors the configured embedder returns
  splitter,     \* the TextSplitter facade: its inputs, configuration and chunks
  conversion,   \* a collector conversion: its arguments, position and outcome
  chat          \* a handleStream call: its locals, listeners and what it did

ingestVars ==
  <<collections, points, index, nextRow, cache, pc, call, started, callers, dimension>>

searchVars == <<spc, req, searchResults, out, shist>>

toolVars == <<splitter, conversion, chat>>

vars == <<collections, points, index, nextRow, cache, pc, call, started,
          callers, dimension, spc, req, searchResults, out, shist,
          splitter, conversion, chat>>

\* Callers and namespaces are interchangeable: the first operation of a
\* behaviour is the caller w1's and names n1.
ArgProcs == IF started = 0 THEN {"w1"} ELSE callers
CallLimit == IF callers = {"w1"} THEN MaxCalls ELSE MaxRaceCalls
ArgNS == IF started = 0 THEN {"n1"} ELSE NS
\* The large document is ingested by the first operation of a behaviour or
\* not at all.
ArgDocs == IF started = 0 THEN DocIds ELSE DocIds \ {"d2"}

NoCollection == [exists |-> FALSE, dim |-> 0, distance |-> "none"]

\* origin, read by the properties only: the vectors of the call that wrote
\* the cache.
NoCache == [exists |-> FALSE, chunks |-> <<>>, origin |-> {}]

\* Locals of a caller that runs nothing yet.
NoCall ==
  [kind |-> "none", mode |-> "none", no |-> 0, ns |-> "n1", docId |-> "d1",
   file |-> NoPath, metaId |-> FALSE, n |-> 0, vectorDimension |-> 0, i |-> 0, attempt |-> 0,
   allVectors |-> <<>>, vectors |-> <<>>, documentVectors |-> <<>>,
   chunks |-> <<>>, ci |-> 0, uid |-> 0, knownDocuments |-> <<>>,
   result |-> "none", error |-> "none",
   \* history of the call, read by the properties only
   embZero |-> FALSE, embedded |-> 0, exhausted |-> FALSE, afterExhausted |-> FALSE,
   acked |-> {}, landed |-> {}, created |-> FALSE, wroteCache |-> FALSE,
   indexed |-> <<>>, sawMissing |-> FALSE, raced |-> FALSE,
   indexAtStart |-> <<>>, deleteRequests |-> 0, removedRows |-> FALSE,
   skipped |-> FALSE, enumerated |-> {}, requested |-> {}, settled |-> {},
   failedDeletes |-> {}, content |-> "none", skipCache |-> FALSE,
   lookedUp |-> FALSE, hadCache |-> FALSE, split |-> FALSE, embedCalls |-> 0,
   connected |-> FALSE, put |-> {}, misfit |-> FALSE,
   tries |-> 0, waited |-> 0, sleeps |-> 0, resent |-> FALSE, early |-> FALSE,
   lostOnce |-> FALSE, embedLog |-> <<>>, upsertLog |-> <<>>,
   reshuffled |-> FALSE, pointsAtStart |-> [n \in NS |-> {}]]

NoRequest ==
  [strategy |-> "vector", pairs |-> FALSE, similarityThreshold |-> 25,
   topN |-> 1, filterIdentifiers |-> {}, rerank |-> FALSE]

NoResults == [contextTexts |-> <<>>, sourceDocuments |-> <<>>, scores |-> <<>>]

NoOut ==
  [kind |-> "none", contextTexts |-> <<>>, sources |-> <<>>, message |-> "none"]

NoHistory ==
  [dispatched |-> "none", fellBack |-> FALSE, answered |-> FALSE,
   plainAnswer |-> <<>>, candidates |-> NoResults, rerankFailed |-> FALSE,
   reranked |-> FALSE, missing |-> FALSE, embedCalled |-> FALSE,
   queries |-> 0, ran |-> {}]

\* JavaScript values of the splitter's arguments: a number, null, NaN,
\* undefined, a numeric string and a string that is no number.
Num(v) == [t |-> "number", v |-> v]
Null == [t |-> "null", v |-> 0]
NaN == [t |-> "NaN", v |-> 0]
Undefined == [t |-> "undefined", v |-> 0]
NumStr(v) == [t |-> "numeric string", v |-> v]
Text == [t |-> "text", v |-> 0]

\* A JavaScript string is the sequence of its pieces; a metadata value is a
\* string, an array, null, or absent from the object.
Str(s) == [t |-> "string", s |-> s]
Arr(s) == [t |-> "array", s |-> s]
JsNull == [t |-> "null", s |-> <<>>]
Absent == [t |-> "absent", s |-> <<>>]

NoMetadata ==
  [given |-> FALSE, title |-> Absent, published |-> Absent,
   chunkSource |-> Absent, docAuthor |-> Absent]
NoHeaderMeta == [null |-> TRUE, data |-> <<>>]

\* A file name is its base name and its extension; the empty name has
\* neither.
NoFile == [base |-> "", ext |-> ""]
\* The splitter class the facade built and the options it gave it.
NoEngine ==
  [class |-> "none", chunkSize |-> Undefined, chunkOverlap |-> Undefined,
   chunkHeader |-> JsNull, separator |-> "undefined",
   separators |-> "undefined", keepSeparator |-> "undefined"]

NoSplitter ==
  [stage |-> "idle", preferred |-> Undefined, embedderLimit |-> Undefined,
   maxChunkSize |-> Undefined, metadata |-> NoMetadata,
   chunkHeaderMeta |-> NoHeaderMeta, splitByFilename |-> NoFile,
   config |-> <<>>, engine |-> NoEngine, chunks |-> <<>>]

NoResult == [success |-> FALSE, reason |-> "none", documents |-> 0]
\* trashed and persisted count the calls of trashFile and the document
\* records written; failed, read by the properties only, names the helpers
\* that threw while the record was built, written and cleaned up after.
NoConversion ==
  [kind |-> "none", stage |-> "idle", fullFilePath |-> "", filename |-> "",
   docs |-> <<>>, pageTexts |-> 0, ocrPages |-> 0, result |-> NoResult,
   trashed |-> 0, persisted |-> 0, tokenCount |-> "none",
   published |-> "none", failed |-> {}]

\* No handleStream call yet. fullText and usage are the locals of lines
\* 176-181, closeListener says that handleAbort listens for the response's
\* close; the other fields record what the call did.
NoChat ==
  [stage |-> "none", fullText |-> <<>>,
   usage |-> [prompt_tokens |-> 0, completion_tokens |-> 0],
   closeListener |-> FALSE, closed |-> FALSE, resolved |-> FALSE,
   text |-> <<>>, chunks |-> <<>>, measurements |-> <<>>, aborts |-> 0,
   events |-> 0, arrived |-> <<>>, ended |-> "none", lateAborts |-> 0]

ToolsIdle ==
  /\ splitter = NoSplitter
  /\ conversion = NoConversion
  /\ chat = NoChat

SearchIdle ==
  /\ spc = "idle"
  /\ req = NoRequest
  /\ searchResults = NoResults
  /\ out = NoOut
  /\ shist = NoHistory

IngestIdle ==
  /\ collections = [n \in NS |-> NoCollection]
  /\ points = [n \in NS |-> {}]
  /\ index = <<>>
  /\ nextRow = 1
  /\ cache = [f \in Paths |-> NoCache]
  /\ pc = [p \in Procs |-> "idle"]
  /\ call = [p \in Procs |-> NoCall]
  /\ started = 0
  /\ dimension = EmbedderDim

InitIngest ==
  /\ SearchIdle
  /\ ToolsIdle
  /\ IngestIdle
  /\ callers = {"w1"}

\* The call ends: its locals are dropped, its outcome and history stay.
Ended(c, result, error) ==
  [c EXCEPT !.result = result, !.error = error, !.allVectors = <<>>,
            !.vectors = <<>>, !.documentVectors = <<>>, !.chunks = <<>>,
            !.knownDocuments = <<>>, !.i = 0, !.attempt = 0, !.ci = 0]

\* catch (error) of addDocumentToNamespace: {vectorized: false, error}.
AddFails(p, c, error) ==
  /\ call' = [call EXCEPT ![p] = Ended(c, "failed", error)]
  /\ pc' = [pc EXCEPT ![p] = "idle"]

(***************************************************************************)
(* Collaborators of the provider.  Their code is not part of the provider; *)
(* they are modelled by the answers they can give.                         *)
(***************************************************************************)
\* cachedVectorInformation(fullFilePath): no path, no cache.
CachedVectorInformation(file) == IF file = NoPath THEN NoCache ELSE cache[file]

\* client.collectionExists as namespaceExists reports it: a request that
\* errors is logged and reported as "does not exist".
ExistsAnswers(ns) == IF collections[ns].exists THEN {TRUE, FALSE} ELSE {FALSE}

\* client.upsert: "completed" stores the points and says so; "rejected" stores
\* nothing and reports a status other than completed; "lost" stores the points
\* and the request still errors (the answer never arrives).
UpsertOutcomes == {"completed", "rejected", "lost"}

\* The index stores a point only if its vector has the length the collection
\* was created with.
IndexAccepts(ns, batch) ==
  \A k \in 1..Len(batch) : batch[k].dim = collections[ns].dim

(***************************************************************************)
(* addDocumentToNamespace, fresh path.                                     *)
(***************************************************************************)
\* The position after batchInsertVectors returned.
AfterInsertPc(c) ==
  IF c.mode = "fresh"
    THEN IF c.file # NoPath THEN "store" ELSE "bulkInsert"
    ELSE IF c.ci < Len(c.chunks) THEN "replay" ELSE "bulkInsert"

AfterInsertCall(c) ==
  IF c.mode = "fresh"
    THEN [c EXCEPT !.i = 0, !.attempt = 0]
    ELSE [c EXCEPT !.i = 0, !.attempt = 0, !.vectors = <<>>, !.ci = @ + 1]

\* The position once getOrCreateCollection returned a collection: the fresh
\* path hands allVectors to batchInsertVectors, whose loop does not run for an
\* empty list; the cache path starts its loop over the cached chunks.
AfterCollectionCall(c) ==
  IF c.mode = "fresh"
    THEN [c EXCEPT !.vectors = c.allVectors, !.i = 0, !.attempt = 0]
    ELSE [c EXCEPT !.ci = 1]

\* A build that goes past batchInsertVectors without calling it.
AfterCollectionPcNoInsert(c) == AfterInsertPc(c)

AfterCollectionPc(c) ==
  IF c.mode = "fresh"
    THEN IF Len(c.allVectors) = 0 THEN AfterInsertPc(c) ELSE "upsert"
    ELSE "replay"

\* A build that goes on without page content.
NoPageContentNever(content) == FALSE

\* Line 487: pageContent is missing or empty.
NoPageContent(content) == content \in {"missing", "empty"}

\* A build that looks the cache up whatever skipCache says.
CacheConsultedAlways(skipCache) == TRUE

\* Line 492: the cache is looked up when skipCache is set.
CacheConsulted(skipCache) == skipCache

\* Lines 486-515: validation, cache lookup, split.
AddStart(p) ==
  /\ pc[p] = "idle"
  /\ started < CallLimit
  /\ p \in ArgProcs
  /\ \E ns \in ArgNS, docId \in ArgDocs,
        content \in {"missing", "empty", "text"}, skipCache \in BOOLEAN :
       LET file == Documents[docId].file
           n == Documents[docId].chunks
           c0 == [NoCall EXCEPT !.kind = "add", !.no = started + 1,
                                !.ns = ns, !.docId = docId, !.file = file,
                                !.metaId = Documents[docId].metaId,
                                !.content = content, !.skipCache = skipCache,
                                !.hadCache =
                                   CachedVectorInformation(file).exists]
           looked == CacheConsulted(skipCache)
           c1 == [c0 EXCEPT !.lookedUp = looked]
       IN /\ IF NoPageContent(content)
               THEN /\ call' = [call EXCEPT ![p] = Ended(c0, "false", "none")]
                    /\ pc' = pc
               ELSE IF looked /\ CachedVectorInformation(file).exists
                 THEN /\ call' = [call EXCEPT ![p] =
                            [c1 EXCEPT !.mode = "cached",
                                       !.chunks = cache[file].chunks]]
                      /\ pc' = [pc EXCEPT ![p] = "cacheConnect"]
                 ELSE /\ call' = [call EXCEPT ![p] =
                            [c1 EXCEPT !.mode = "fresh", !.n = n,
                                       !.split = TRUE]]
                      /\ pc' = [pc EXCEPT ![p] =
                            IF n > 0 THEN "embed" ELSE "connect"]
  /\ started' = started + 1
  /\ UNCHANGED <<collections, points, index, nextRow, cache, callers, dimension>>

\* EmbedderEngine.embedChunks(batch): the number of vectors it answers for a
\* batch of len chunks: none, one for each chunk, or one short (drawn for the
\* small documents of the first operation of a behaviour only).
EmbedAnswers(no, len) == {0, len} \cup (IF no = 1 /\ len \in 2..SmallDoc THEN {len - 1} ELSE {})

\* A build that goes on after an empty embedding answer.
EmbedFailedNever(returned) == FALSE

\* Line 527: the embedder returned nothing for the batch.
EmbedFailed(returned) == returned = 0

\* Lines 523-546: one embedding batch.
EmbedBatch(p) ==
  /\ pc[p] = "embed"
  /\ LET c0 == call[p]
         textChunks == [k \in 1..c0.n |-> Chunk(c0.docId, k)]
         batch == Slice(textChunks, c0.i, EmbedBatchSize)
         len == Len(batch)
         c == [c0 EXCEPT !.embedLog = Append(@, batch)]
     IN \E returned \in EmbedAnswers(c.no, len) :
          IF EmbedFailed(returned)
            THEN AddFails(p, [c EXCEPT !.embZero = TRUE,
                                       !.embedCalls = @ + 1], "embed")
            ELSE LET have == Len(c.allVectors)
                     ids == Uuids(c.no, have + 1, have + returned)
                     records == [j \in 1..returned |->
                                   [id |-> ids[j],
                                    text |-> batch[j],
                                    dim |-> dimension]]
                     c1 == [c EXCEPT !.allVectors = @ \o records,
                                     !.documentVectors = @ \o ids,
                                     !.vectorDimension =
                                        IF @ = 0 /\ returned > 0
                                          THEN dimension ELSE @,
                                     !.i = @ + EmbedBatchSize,
                                     !.embZero = @ \/ returned = 0,
                                     !.embedded = @ + returned,
                                     !.embedCalls = @ + 1]
                 IN /\ call' = [call EXCEPT ![p] =
                          IF c1.i < c.n THEN c1 ELSE [c1 EXCEPT !.i = 0]]
                    /\ pc' = [pc EXCEPT ![p] =
                          IF c1.i < c.n THEN "embed" ELSE "connect"]
  /\ UNCHANGED <<collections, points, index, nextRow, cache, started, callers, dimension>>

\* getOrCreateCollection, lines 431-439: the existence check and the
\* dimension check.
GetOrCreateCheck(p, c) ==
  \E seen \in ExistsAnswers(c.ns) :
    IF seen
      THEN /\ call' = [call EXCEPT ![p] = AfterCollectionCall(c)]
           /\ pc' = [pc EXCEPT ![p] = AfterCollectionPc(c)]
      ELSE IF c.vectorDimension = 0
        THEN AddFails(p, c, "dimension")
        ELSE /\ call' = [call EXCEPT ![p] =
                   [c EXCEPT !.sawMissing = ~collections[c.ns].exists]]
             /\ pc' = [pc EXCEPT ![p] = "create"]

\* Lines 549-554: connect, then getOrCreateCollection up to its create request.
Connect(p) ==
  /\ pc[p] = "connect"
  /\ \E alive \in BOOLEAN :
       LET c == [call[p] EXCEPT !.connected = TRUE]
       IN IF alive THEN GetOrCreateCheck(p, c)
                   ELSE AddFails(p, c, "connect")
  /\ UNCHANGED <<collections, points, index, nextRow, cache, started, callers, dimension>>

\* createCollection answers a namespace that exists with an error.
CreateConflicts(ns) == collections[ns].exists

\* getOrCreateCollection, lines 470-471: the create request and getCollection.
Create(p) ==
  /\ pc[p] = "create"
  /\ LET c == call[p]
     IN IF CreateConflicts(c.ns)
          THEN /\ AddFails(p, [c EXCEPT !.raced = c.sawMissing], "exists")
               /\ UNCHANGED collections
          ELSE \E accepted \in BOOLEAN :
                 IF accepted
                   THEN /\ collections' = [collections EXCEPT ![c.ns] =
                              [exists |-> TRUE, dim |-> c.vectorDimension,
                               distance |-> "Cosine"]]
                        /\ call' = [call EXCEPT ![p] =
                              AfterCollectionCall([c EXCEPT !.created = TRUE])]
                        /\ pc' = [pc EXCEPT ![p] = AfterCollectionPc(c)]
                   ELSE /\ AddFails(p, c, "create")
                        /\ UNCHANGED collections
  /\ UNCHANGED <<points, index, nextRow, cache, started, callers, dimension>>

\* A build whose retry loop runs out without throwing.
LastAttemptNever(attempt) == FALSE

\* Line 660: the attempt that failed was the last one allowed.
LastAttempt(attempt) == attempt = Retries - 1

\* A build that sleeps one second before every re-attempt.
DelayFlat(attempt) == 1000

\* Line 667: Math.pow(2, attempt) * 1000, the milliseconds slept after the
\* failed attempt numbered attempt (from 0).
Delay(attempt) == (2 ^ attempt) * 1000

\* A build that draws new point ids for every attempt.
SubmissionRedrawn(vs, attempt) == [k \in 1..Len(vs) |-> [vs[k] EXCEPT !.id = <<@[1], @[2] + 1000 * attempt>>]]

\* Lines 644-650: the submission of a batch, made once before the attempts:
\* id, vector and payload of each of its vectors.
Submission(vs, attempt) == [k \in 1..Len(vs) |-> [id |-> vs[k].id, text |-> vs[k].text, dim |-> vs[k].dim]]

\* batchInsertVectors, lines 642-671: one attempt to upsert the current batch.
Upsert(p) ==
  /\ pc[p] = "upsert"
  /\ LET c == call[p]
         batch == Submission(Slice(c.vectors, c.i, UpsertBatchSize), c.attempt)
         ids == {batch[k].id : k \in 1..Len(batch)}
     IN \E outcome \in IF IndexAccepts(c.ns, batch) THEN UpsertOutcomes
                                                      ELSE {"rejected"} :
          LET applied == outcome \in {"completed", "lost"}
              before == {c.vectors[k].id : k \in 1..c.i}
              c1 == [c EXCEPT !.landed = IF applied THEN @ \cup ids ELSE @,
                              !.misfit = @ \/ ~IndexAccepts(c.ns, batch),
                              !.put = IF applied THEN @ \cup Range(batch)
                                                 ELSE @,
                              !.afterExhausted = @ \/ c.exhausted,
                              !.tries = @ + 1,
                              !.upsertLog =
                                 IF c.attempt = 0
                                   THEN Append(@, [k \in 1..Len(batch) |->
                                                     batch[k].id])
                                   ELSE @,
                              !.resent = @ \/ (ids \cap c.acked # {}),
                              !.early = @ \/ ~(before \subseteq c.acked),
                              !.reshuffled =
                                 @ \/ /\ c.attempt > 0
                                       /\ c.upsertLog[Len(c.upsertLog)] #
                                            [k \in 1..Len(batch) |->
                                               batch[k].id],
                              !.lostOnce = @ \/ outcome = "lost"]
              next == [c1 EXCEPT !.i = @ + UpsertBatchSize, !.attempt = 0,
                                 !.tries = 0, !.waited = 0, !.sleeps = 0]
              Advance(c2) ==
                IF c2.i < Len(c.vectors)
                  THEN /\ call' = [call EXCEPT ![p] = c2]
                       /\ pc' = pc
                  ELSE /\ call' = [call EXCEPT ![p] = AfterInsertCall(c2)]
                       /\ pc' = [pc EXCEPT ![p] = AfterInsertPc(c2)]
          IN /\ points' = IF applied
                            THEN [points EXCEPT ![c.ns] =
                                    {pt \in @ : pt.id \notin ids}
                                      \cup Range(batch)]
                            ELSE points
             /\ IF outcome = "completed"
                  THEN Advance([next EXCEPT !.acked = @ \cup ids])
                  ELSE LET c2 == [c1 EXCEPT !.exhausted =
                                      @ \/ (c.attempt = Retries - 1)]
                       IN IF LastAttempt(c.attempt)
                            THEN AddFails(p, c2, "upsert")
                            ELSE IF c.attempt + 1 < Retries
                              THEN /\ call' = [call EXCEPT ![p] =
                                         [c2 EXCEPT !.attempt = @ + 1,
                                                    !.waited = Delay(c.attempt),
                                                    !.sleeps = @ + 1]]
                                   /\ pc' = pc
                              ELSE Advance([next EXCEPT
                                              !.exhausted = c2.exhausted])
  /\ UNCHANGED <<collections, index, nextRow, cache, started, callers, dimension>>

\* Lines 566-571: storeVectorResult, one single-item chunk per vector, the
\* payload being the document's metadata and the chunk text.
Store(p) ==
  /\ pc[p] = "store"
  /\ LET c == call[p]
     IN /\ cache' = [cache EXCEPT ![c.file] =
              [exists |-> TRUE,
               chunks |-> [k \in 1..Len(c.allVectors) |->
                             <<[hasId |-> c.metaId,
                                dim |-> c.allVectors[k].dim,
                                text |-> c.allVectors[k].text]>>],
               origin |-> Range(c.allVectors)]]
        /\ call' = [call EXCEPT ![p] = [c EXCEPT !.wroteCache = TRUE]]
        /\ pc' = [pc EXCEPT ![p] = "bulkInsert"]
  /\ UNCHANGED <<collections, points, index, nextRow, started, callers, dimension>>

\* DocumentVectors.bulkInsert(documentVectors) and the success result
\* (lines 573-574 and 632-633).
BulkInsert(p) ==
  /\ pc[p] = "bulkInsert"
  /\ LET c == call[p]
         rows == [k \in 1..Len(c.documentVectors) |->
                    [id |-> nextRow + k - 1, docId |-> c.docId,
                     vectorId |-> c.documentVectors[k]]]
     IN /\ index' = index \o rows
        /\ nextRow' = nextRow + Len(rows)
        /\ call' = [call EXCEPT ![p] =
              Ended([c EXCEPT !.indexed = rows], "vectorized", "none")]
        /\ pc' = [pc EXCEPT ![p] = "idle"]
  /\ UNCHANGED <<collections, points, cache, started, callers, dimension>>

(***************************************************************************)
(* addDocumentToNamespace, cache path (processCachedVectors).              *)
(***************************************************************************)
\* Lines 586-604: connect, the chunks check, the dimension of the first cached
\* vector, getOrCreateCollection up to its create request.
CacheConnect(p) ==
  /\ pc[p] = "cacheConnect"
  /\ LET c == [call[p] EXCEPT !.connected = TRUE]
     IN \E alive \in BOOLEAN :
          IF ~alive THEN AddFails(p, c, "connect")
          ELSE IF Len(c.chunks) = 0 THEN AddFails(p, c, "nochunks")
          ELSE GetOrCreateCheck(p,
                 [c EXCEPT !.vectorDimension =
                     IF Len(c.chunks[1]) = 0 THEN 0 ELSE c.chunks[1][1].dim])
  /\ UNCHANGED <<collections, points, index, nextRow, cache, started, callers, dimension>>

\* A build that replays every cached item.
HasIdMarkerAlways(item) == TRUE

\* Line 612: the cached item's payload carries the id marker.
HasIdMarker(item) == item.hasId

\* The positions of a cached chunk whose items carry the id marker.
Marked(chunk) ==
  SelectSeq([j \in 1..Len(chunk) |-> j], LAMBDA j : HasIdMarker(chunk[j]))

\* Line 614: the identifiers pushed to documentVectors for a cached chunk.
IndexedItems(chunk, ids) ==
  [k \in 1..Len(Marked(chunk)) |-> ids[Marked(chunk)[k]]]

\* A build that loses the first marked item of a cached chunk.
UpsertedItemsSkipFirst(chunk, ids) ==
  [k \in 1..(Len(Marked(chunk)) - 1) |->
     [id |-> ids[Marked(chunk)[k + 1]], text |-> chunk[Marked(chunk)[k + 1]].text,
      dim |-> chunk[Marked(chunk)[k + 1]].dim]]

\* Lines 615-619: the identifiers pushed to vectors for a cached chunk.
UpsertedItems(chunk, ids) ==
  [k \in 1..Len(Marked(chunk)) |->
     [id |-> ids[Marked(chunk)[k]], text |-> chunk[Marked(chunk)[k]].text,
      dim |-> chunk[Marked(chunk)[k]].dim]]

\* Lines 607-629: one cached chunk. Every item draws an identifier; the items
\* whose payload carries the id marker become vectors and index entries.
Replay(p) ==
  /\ pc[p] = "replay"
  /\ LET c == call[p]
         chunk == c.chunks[c.ci]
         ids == [j \in 1..Len(chunk) |-> Uuid(c.no, c.uid + j)]
         c1 == [c EXCEPT !.uid = @ + Len(chunk),
                         !.documentVectors = @ \o IndexedItems(chunk, ids),
                         !.vectors = UpsertedItems(chunk, ids),
                         !.i = 0, !.attempt = 0]
     IN IF Len(c1.vectors) > 0
          THEN /\ call' = [call EXCEPT ![p] = c1]
               /\ pc' = [pc EXCEPT ![p] = "upsert"]
          ELSE /\ call' = [call EXCEPT ![p] = AfterInsertCall(c1)]
               /\ pc' = [pc EXCEPT ![p] = AfterInsertPc(c1)]
  /\ UNCHANGED <<collections, points, index, nextRow, cache, started, callers, dimension>>

(***************************************************************************)
(* deleteDocumentFromNamespace.                                            *)
(***************************************************************************)
\* The call throws: catch (error) logs and rethrows (lines 702-708).
DeleteThrows(p, c, error) ==
  /\ call' = [call EXCEPT ![p] = Ended(c, "threw", error)]
  /\ pc' = [pc EXCEPT ![p] = "idle"]

DeleteReturns(p, c) ==
  /\ call' = [call EXCEPT ![p] = Ended(c, "true", "none")]
  /\ pc' = [pc EXCEPT ![p] = "idle"]

\* A build that goes on to delete in a namespace reported missing.
NamespaceGoneNever(seen) == FALSE

\* Line 682: namespaceExists answered that the namespace does not exist.
NamespaceGone(seen) == ~seen

\* Lines 681-682: connect and the existence check.
DeleteStart(p) ==
  /\ pc[p] = "idle"
  /\ started < CallLimit
  /\ p \in ArgProcs
  /\ \E ns \in ArgNS, docId \in DocIds, alive \in BOOLEAN :
       LET c == [NoCall EXCEPT !.kind = "delete", !.no = started + 1,
                               !.ns = ns, !.docId = docId,
                               !.indexAtStart = index,
                               !.pointsAtStart = points]
       IN IF ~alive THEN DeleteThrows(p, c, "connect")
          ELSE \E seen \in ExistsAnswers(ns) :
                 IF NamespaceGone(seen)
                   THEN DeleteReturns(p, [c EXCEPT !.skipped = TRUE])
                   ELSE /\ call' = [call EXCEPT ![p] = c]
                        /\ pc' = [pc EXCEPT ![p] = "where"]
  /\ started' = started + 1
  /\ UNCHANGED <<collections, points, index, nextRow, cache, callers, dimension>>

\* DocumentVectors.where({docId}): the rows that name the document.
RowsOf(rows, docId) == SelectSeq(rows, LAMBDA r : r.docId = docId)

\* A build that goes on with an empty lookup.
NothingKnownNever(known) == FALSE

\* Line 685: the index holds no row of the document.
NothingKnown(known) == Len(known) = 0

\* Lines 684-687: DocumentVectors.where({docId}). The delete loop does not run
\* for an empty list of vector ids.
DeleteWhere(p) ==
  /\ pc[p] = "where"
  /\ LET c == call[p]
         known == RowsOf(index, c.docId)
     IN IF NothingKnown(known)
          THEN DeleteReturns(p, c)
          ELSE /\ call' = [call EXCEPT ![p] =
                     [c EXCEPT !.knownDocuments = known, !.i = 0]]
               /\ pc' = [pc EXCEPT ![p] =
                     IF Len(known) > 0 THEN "deleteBatch" ELSE "deleteIds"]
  /\ UNCHANGED <<collections, points, index, nextRow, cache, started, callers, dimension>>

\* Lines 691-697: one client.delete request.
DeleteBatch(p) ==
  /\ pc[p] = "deleteBatch"
  /\ LET c == call[p]
         batch == Slice(c.knownDocuments, c.i, DeleteBatchSize)
         ids == {batch[k].vectorId : k \in 1..Len(batch)}
     IN \E done \in BOOLEAN :
          IF done
            THEN /\ points' = [points EXCEPT ![c.ns] =
                                  {pt \in @ : pt.id \notin ids}]
                 /\ call' = [call EXCEPT ![p] =
                       [c EXCEPT !.i = @ + DeleteBatchSize,
                                 !.deleteRequests = @ + 1]]
                 /\ pc' = [pc EXCEPT ![p] =
                       IF c.i + DeleteBatchSize < Len(c.knownDocuments)
                         THEN "deleteBatch" ELSE "deleteIds"]
            ELSE /\ DeleteThrows(p, [c EXCEPT !.deleteRequests = @ + 1],
                                 "delete")
                 /\ UNCHANGED points
  /\ UNCHANGED <<collections, index, nextRow, cache, started, callers, dimension>>

\* Lines 699-701: DocumentVectors.deleteIds of the rows looked up.
DeleteIds(p) ==
  /\ pc[p] = "deleteIds"
  /\ LET c == call[p]
         gone == {c.knownDocuments[k].id : k \in 1..Len(c.knownDocuments)}
     IN /\ index' = SelectSeq(index, LAMBDA r : r.id \notin gone)
        /\ DeleteReturns(p, [c EXCEPT !.removedRows = TRUE])
  /\ UNCHANGED <<collections, points, nextRow, cache, started, callers, dimension>>

NextIngest ==
  \E p \in Procs :
    \/ AddStart(p) /\ UNCHANGED <<searchVars, toolVars>>
    \/ EmbedBatch(p) /\ UNCHANGED <<searchVars, toolVars>>
    \/ Connect(p) /\ UNCHANGED <<searchVars, toolVars>>
    \/ Create(p) /\ UNCHANGED <<searchVars, toolVars>>
    \/ Upsert(p) /\ UNCHANGED <<searchVars, toolVars>>
    \/ Store(p) /\ UNCHANGED <<searchVars, toolVars>>
    \/ BulkInsert(p) /\ UNCHANGED <<searchVars, toolVars>>
    \/ CacheConnect(p) /\ UNCHANGED <<searchVars, toolVars>>
    \/ Replay(p) /\ UNCHANGED <<searchVars, toolVars>>
    \/ DeleteStart(p) /\ UNCHANGED <<searchVars, toolVars>>
    \/ DeleteWhere(p) /\ UNCHANGED <<searchVars, toolVars>>
    \/ DeleteBatch(p) /\ UNCHANGED <<searchVars, toolVars>>
    \/ DeleteIds(p) /\ UNCHANGED <<searchVars, toolVars>>

\* One caller: the operations run one after the other.
Spec == InitIngest /\ [][NextIngest]_vars

(***************************************************************************)
(* reset.                                                                  *)
(***************************************************************************)
\* The call throws: connect is outside the try (line 787), and catch (error)
\* logs and rethrows (lines 808-811).
ResetThrows(p, c, error) ==
  /\ call' = [call EXCEPT ![p] = Ended(c, "threw", error)]
  /\ pc' = [pc EXCEPT ![p] = "idle"]

\* Lines 802-806: {reset: true, deleted_collections, timestamp}.
ResetReturns(p, c) ==
  /\ call' = [call EXCEPT ![p] = Ended(c, "reset", "none")]
  /\ pc' = [pc EXCEPT ![p] = "idle"]

\* Lines 787-800: connect, getCollections, and one deleteCollection request
\* for every collection listed, all sent before any of them is awaited.
ResetStart(p) ==
  /\ pc[p] = "idle"
  /\ started < CallLimit
  /\ p \in ArgProcs
  /\ LET c == [NoCall EXCEPT !.kind = "reset", !.no = started + 1,
                             !.indexAtStart = index]
     IN \E alive \in BOOLEAN, listed \in BOOLEAN :
          IF ~alive THEN ResetThrows(p, c, "connect")
          ELSE IF ~listed THEN ResetThrows(p, c, "list")
          ELSE LET names == {n \in NS : collections[n].exists}
                   c1 == [c EXCEPT !.enumerated = names, !.requested = names]
               IN IF names = {}
                    THEN ResetReturns(p, c1)
                    ELSE /\ call' = [call EXCEPT ![p] = c1]
                         /\ pc' = [pc EXCEPT ![p] = "resetSettle"]
  /\ started' = started + 1
  /\ UNCHANGED <<collections, points, index, nextRow, cache, callers, dimension>>

\* A build without the .catch on each deleteCollection promise.
DeleteCollectionRejectsAlways(failed) == failed

\* Lines 794-799: the promise of one deleteCollection request rejects; .catch
\* logs the failure, so it never does.
DeleteCollectionRejects(failed) == FALSE

\* Lines 791-802: one deleteCollection request settles; Promise.all resolves
\* with the last of them and the call returns.
ResetSettle(p) ==
  /\ pc[p] = "resetSettle"
  /\ LET c == call[p]
     IN \E n \in c.requested \ c.settled, failed \in BOOLEAN :
          LET c1 == [c EXCEPT !.settled = @ \cup {n},
                              !.failedDeletes =
                                 IF failed THEN @ \cup {n} ELSE @]
          IN /\ collections' = IF failed THEN collections
                                ELSE [collections EXCEPT ![n] = NoCollection]
             /\ points' = IF failed THEN points
                           ELSE [points EXCEPT ![n] = {}]
             /\ IF DeleteCollectionRejects(failed)
                  THEN ResetThrows(p, c1, "deleteCollection")
                  ELSE IF c1.settled = c1.requested
                    THEN ResetReturns(p, c1)
                    ELSE /\ call' = [call EXCEPT ![p] = c1]
                         /\ pc' = pc
  /\ UNCHANGED <<index, nextRow, cache, started, callers, dimension>>

NextAdmin ==
  \/ NextIngest
  \/ \E p \in Procs : ResetStart(p) /\ UNCHANGED <<searchVars, toolVars>>
  \/ \E p \in Procs : ResetSettle(p) /\ UNCHANGED <<searchVars, toolVars>>

\* One caller running ingest, deletion and reset one after the other.
SpecAdmin == InitIngest /\ [][NextAdmin]_vars

InitRace ==
  /\ SearchIdle
  /\ ToolsIdle
  /\ IngestIdle
  /\ callers = Procs

\* Two callers: the operations interleave at their await points.
SpecRace == InitRace /\ [][NextIngest]_vars

(***************************************************************************)
(* Ingest with an embedder that is reconfigured between calls and a vector *)
(* cache left by an earlier installation.                                  *)
(***************************************************************************)
\* A cache file found on disk for the source f1: chunks of several items,
\* some payloads with the id marker and some without. The operation that
\* left it counts as the first of the behaviour.
PriorCache ==
  [exists |-> TRUE,
   chunks |-> << <<[hasId |-> TRUE, dim |-> EmbedderDim, text |-> Chunk("d1", 1)],
                   [hasId |-> FALSE, dim |-> EmbedderDim, text |-> Chunk("d1", 2)]>>,
                 <<[hasId |-> FALSE, dim |-> EmbedderDim, text |-> Chunk("d1", 3)]>>,
                 <<[hasId |-> TRUE, dim |-> EmbedderDim, text |-> Chunk("d1", 4)]>> >>,
   origin |-> {}]

InitConfig ==
  /\ SearchIdle
  /\ ToolsIdle
  /\ collections = [n \in NS |-> NoCollection]
  /\ points = [n \in NS |-> {}]
  /\ index = <<>>
  /\ nextRow = 1
  /\ cache = [f \in Paths |-> IF f = "f1" THEN PriorCache ELSE NoCache]
  /\ pc = [p \in Procs |-> "idle"]
  /\ call = [p \in Procs |-> NoCall]
  /\ started = 1
  /\ dimension = EmbedderDim
  /\ callers = {"w1"}

\* getEmbeddingEngineSelection() (line 500) answers with the embedder of the
\* current settings: between two calls another embedder is configured, once
\* in a behaviour.
Reconfigure ==
  /\ \A p \in Procs : pc[p] = "idle"
  /\ started > 0
  /\ started < CallLimit
  /\ dimension = EmbedderDim
  /\ \E d \in Dims \ {dimension} : dimension' = d
  /\ UNCHANGED <<collections, points, index, nextRow, cache, pc, call,
                 started, callers>>

NextConfig ==
  \/ NextIngest
  \/ Reconfigure /\ UNCHANGED <<searchVars, toolVars>>

SpecConfig == InitConfig /\ [][NextConfig]_vars

(***************************************************************************)
(* performSimilaritySearch.                                                *)
(***************************************************************************)
\* Bound: the longest answer the index client gives to one request.
MaxResponse == 2

Scores == {10, 40, 90}
Thresholds == {25, 50}
SourceKeys == {"a", "b"}
TopNs == {1, 2}

\* The points an answer of the index client can hold: every score with every
\* source; similarity scores are counted in hundredths.
IdOf(score, src) == score + (IF src = "a" THEN 1 ELSE 2)

Universe ==
  {[id |-> IdOf(sc, src), score |-> sc,
    payload |-> [src |-> src, text |-> IdOf(sc, src)]] :
     sc \in Scores, src \in SourceKeys}

ScoreOfId(id) == (CHOOSE pt \in Universe : pt.id = id).score

SrcOfText(text) == (CHOOSE pt \in Universe : pt.payload.text = text).payload.src

Injective(s) == \A j, k \in 1..Len(s) : j # k => s[j] # s[k]

\* The sequences without repetition, of length len, over the set S.
Arrangements(S, len) == {s \in [1..len -> S] : Injective(s)}

\* Whatever the index client answers to one request: any points, in any order.
Responses == UNION {Arrangements(Universe, len) : len \in 0..MaxResponse}

\* sourceIdentifier(payload) of utils/chats: the identifying metadata of the
\* parent document of a stored point.
SourceIdentifier(payload) == payload.src

\* Lines 353-359: similarityResponse keeps the point.
SimilarityKeeps(response, similarityThreshold, filterIdentifiers) ==
  /\ ~(response.score < similarityThreshold)
  /\ SourceIdentifier(response.payload) \notin filterIdentifiers

\* A build whose discovery search forgets the pinned documents.
DiscoveryKeepsAll(response, similarityThreshold, filterIdentifiers) == TRUE

\* Lines 209-214: performDiscoverySearch keeps the point.
DiscoveryKeeps(response, similarityThreshold, filterIdentifiers) ==
  SourceIdentifier(response.payload) \notin filterIdentifiers

\* Lines 277-282: performHybridSearch keeps the point.
HybridKeeps(response, similarityThreshold, filterIdentifiers) ==
  SourceIdentifier(response.payload) \notin filterIdentifiers

\* Lines 361-366 (216-221, 284-289): the kept points as the result object.
Collected(kept) ==
  [contextTexts |-> [k \in 1..Len(kept) |-> kept[k].payload.text],
   sourceDocuments |-> [k \in 1..Len(kept) |->
        [src |-> kept[k].payload.src, text |-> kept[k].payload.text,
         id |-> kept[k].id]],
   scores |-> [k \in 1..Len(kept) |-> kept[k].score]]

\* similarityResponse on the answer of the index client, lines 352-369.
SimilarityResponse(responses, similarityThreshold, filterIdentifiers) ==
  Collected(SelectSeq(responses,
    LAMBDA r : SimilarityKeeps(r, similarityThreshold, filterIdentifiers)))

DiscoveryResult(responses, similarityThreshold, filterIdentifiers) ==
  Collected(SelectSeq(responses,
    LAMBDA r : DiscoveryKeeps(r, similarityThreshold, filterIdentifiers)))

HybridResult(responses, similarityThreshold, filterIdentifiers) ==
  Collected(SelectSeq(responses,
    LAMBDA r : HybridKeeps(r, similarityThreshold, filterIdentifiers)))

\* A build whose curation loses the sources of one document.
CurateSourcesLossy(sources) == SelectSeq(sources, LAMBDA d : d.src # "b")

\* curateSources, lines 814-825: a copy of every source that has a key; the
\* sources built here hold text, and none holds a metadata key.
CurateSources(sources) == SelectSeq(sources, LAMBDA d : DOMAIN d # {})

\* Lines 149-152: the documents handed to the reranker.
RerankDocuments(results) ==
  [k \in 1..Len(results.contextTexts) |->
     [text |-> results.sourceDocuments[k].text,
      src |-> results.sourceDocuments[k].src,
      id |-> results.sourceDocuments[k].id]]

\* NativeEmbeddingReranker.rerank(query, documents, {topK}): the topK most
\* relevant of the documents, in the reranker's order.
RerankAnswers(documents, topK) ==
  Arrangements(Range(documents), Min(topK, Len(documents)))

\* Lines 169-178: the result returned without re-ranking.
PlainReturn(results) ==
  [kind |-> "result", contextTexts |-> results.contextTexts,
   sources |-> CurateSources(
      [k \in 1..Len(results.sourceDocuments) |->
         [text |-> results.contextTexts[k],
          src |-> results.sourceDocuments[k].src,
          id |-> results.sourceDocuments[k].id]]),
   message |-> "false"]

\* Lines 159-163: the result returned after re-ranking.
RerankedReturn(rerankedResults) ==
  [kind |-> "result",
   contextTexts |-> [k \in 1..Len(rerankedResults) |-> rerankedResults[k].text],
   sources |-> CurateSources(rerankedResults), message |-> "false"]

\* Lines 105-109: the result for a namespace that does not exist.
NoDocumentsReturn ==
  [kind |-> "result", contextTexts |-> <<>>, sources |-> <<>>,
   message |-> "Invalid query - no documents found for workspace!"]

Thrown == [NoOut EXCEPT !.kind = "threw"]

SearchThrows ==
  /\ out' = Thrown
  /\ spc' = "done"

\* Lines 100-101: the arguments are checked; a missing one throws.
SearchStart ==
  /\ spc \in {"idle", "done"}
  /\ searchResults' = NoResults
  /\ shist' = NoHistory
  /\ \E present \in BOOLEAN :
       IF ~present
         THEN /\ SearchThrows
              /\ req' = NoRequest
         ELSE /\ \E strategy \in {"vector", "hybrid", "discovery"},
                    pairs \in BOOLEAN, th \in Thresholds, topN \in TopNs,
                    filter \in SUBSET {"a"}, rerank \in BOOLEAN :
                   /\ strategy # "discovery" => ~pairs
                   /\ req' = [strategy |-> strategy, pairs |-> pairs,
                              similarityThreshold |-> th, topN |-> topN,
                              filterIdentifiers |-> filter, rerank |-> rerank]
              /\ out' = NoOut
              /\ spc' = "connect"

\* A build that searches a namespace the index does not know.
NamespaceMissingNever(exists) == FALSE

\* Line 104: namespaceExists answered that the namespace does not exist.
NamespaceMissing(exists) == ~exists

\* Lines 103-110: connect and the existence check.
SearchConnect ==
  /\ spc = "connect"
  /\ \E alive \in BOOLEAN, exists \in BOOLEAN :
       IF ~alive THEN SearchThrows /\ shist' = shist
       ELSE /\ shist' = [shist EXCEPT !.missing = ~exists]
            /\ IF NamespaceMissing(exists)
                 THEN /\ out' = NoDocumentsReturn
                      /\ spc' = "done"
                 ELSE /\ spc' = "embed"
                      /\ out' = out
  /\ UNCHANGED <<req, searchResults>>

\* A build that runs discovery search without context pairs.
DispatchByNameOnly(strategy, pairs) == strategy

\* Lines 115, 125, 135: the strategy the call dispatches to.
Dispatch(strategy, pairs) ==
  IF strategy = "discovery" /\ pairs THEN "discovery"
  ELSE IF strategy = "hybrid" THEN "hybrid"
  ELSE "vector"

\* Line 112 and the dispatch: embedTextInput, which may throw.
SearchEmbed ==
  /\ spc = "embed"
  /\ \E embedded \in BOOLEAN :
       IF ~embedded
         THEN /\ SearchThrows
              /\ shist' = [shist EXCEPT !.embedCalled = TRUE]
         ELSE /\ spc' = Dispatch(req.strategy, req.pairs)
              /\ shist' = [shist EXCEPT !.dispatched = spc',
                                        !.embedCalled = TRUE]
              /\ out' = out
  /\ UNCHANGED <<req, searchResults>>

\* Lines 146-178: the strategy returned `results`; re-rank or return.
Searched(results) ==
  /\ searchResults' = results
  /\ IF req.rerank
       THEN /\ spc' = "rerank"
            /\ out' = out
       ELSE /\ spc' = "done"
            /\ out' = PlainReturn(results)

\* A build whose fallback leaves similarityResponse its default parameters.
FallbackDefaults(r) ==
  [r EXCEPT !.similarityThreshold = 25, !.filterIdentifiers = {}]

\* The fallback of a strategy: similarityResponse with the call's parameters
\* (lines 230-237 and 298-305).
FallbackParameters(r) == r

\* performDiscoverySearch, lines 193-239.
SearchDiscovery ==
  /\ spc = "discovery"
  /\ \E failed \in BOOLEAN, responses \in Responses :
       IF failed
         THEN /\ spc' = "fallback"
              /\ shist' = [shist EXCEPT !.fellBack = TRUE, !.queries = @ + 1,
                                        !.ran = @ \cup {"discovery"}]
              /\ UNCHANGED <<searchResults, out>>
         ELSE /\ Searched(DiscoveryResult(responses, req.similarityThreshold,
                                          req.filterIdentifiers))
              /\ shist' = [shist EXCEPT !.answered = TRUE, !.queries = @ + 1,
                                        !.ran = @ \cup {"discovery"},
                                        !.candidates = searchResults']
  /\ UNCHANGED req

\* performHybridSearch, lines 253-307.
SearchHybrid ==
  /\ spc = "hybrid"
  /\ \E failed \in BOOLEAN, responses \in Responses :
       IF failed
         THEN /\ spc' = "fallback"
              /\ shist' = [shist EXCEPT !.fellBack = TRUE, !.queries = @ + 1,
                                        !.ran = @ \cup {"hybrid"}]
              /\ UNCHANGED <<searchResults, out>>
         ELSE /\ Searched(HybridResult(responses, req.similarityThreshold,
                                       req.filterIdentifiers))
              /\ shist' = [shist EXCEPT !.answered = TRUE, !.queries = @ + 1,
                                        !.ran = @ \cup {"hybrid"},
                                        !.candidates = searchResults']
  /\ UNCHANGED req

\* The strategy a similarityResponse call stands for: plain vector search when
\* performSimilaritySearch called it (line 136), none when a strategy called
\* it as its fallback.
VectorDispatched == IF shist.fellBack THEN {} ELSE {"vector"}

\* similarityResponse, lines 326-350: the query API, and the search API when
\* the query API fails; an error of the search API is rethrown (370-373).
SimilarityRequest(parameters) ==
  \E failed \in BOOLEAN, responses \in Responses :
    IF failed
      THEN /\ shist' = [shist EXCEPT !.queries = @ + 1,
                                     !.ran = @ \cup VectorDispatched]
           /\ IF spc = "search"
                THEN SearchThrows /\ UNCHANGED searchResults
                ELSE /\ spc' = "search"
                     /\ UNCHANGED <<searchResults, out>>
      ELSE /\ Searched(SimilarityResponse(responses,
                          parameters.similarityThreshold,
                          parameters.filterIdentifiers))
           /\ shist' = [shist EXCEPT !.answered = TRUE, !.queries = @ + 1,
                                     !.ran = @ \cup VectorDispatched,
                                     !.plainAnswer = responses,
                                     !.candidates = searchResults']

\* similarityResponse called by performSimilaritySearch (lines 136-143).
SearchVector ==
  /\ spc = "vector"
  /\ SimilarityRequest(req)
  /\ UNCHANGED req

\* similarityResponse called as the fallback of a strategy.
SearchFallback ==
  /\ spc = "fallback"
  /\ SimilarityRequest(FallbackParameters(req))
  /\ UNCHANGED req

\* client.search, lines 344-349.
SearchApi ==
  /\ spc = "search"
  /\ SimilarityRequest(IF shist.fellBack THEN FallbackParameters(req) ELSE req)
  /\ UNCHANGED req

\* A build that lets the reranker's error end the search.
RerankFailureThrows(results) == Thrown

\* Lines 164-166: the reranker threw; the call goes on to the plain return.
RerankFailure(results) == PlainReturn(results)

\* Lines 147-167: re-ranking.
SearchRerank ==
  /\ spc = "rerank"
  /\ \E failed \in BOOLEAN,
        answer \in RerankAnswers(RerankDocuments(searchResults), req.topN) :
       IF failed
         THEN /\ out' = RerankFailure(searchResults)
              /\ shist' = [shist EXCEPT !.rerankFailed = TRUE]
         ELSE /\ out' = RerankedReturn(answer)
              /\ shist' = [shist EXCEPT !.reranked = TRUE]
  /\ spc' = "done"
  /\ UNCHANGED <<req, searchResults>>

InitSearch ==
  /\ SearchIdle
  /\ ToolsIdle
  /\ IngestIdle
  /\ callers = {"w1"}

NextSearch ==
  \/ SearchStart /\ UNCHANGED <<ingestVars, toolVars>>
  \/ SearchConnect /\ UNCHANGED <<ingestVars, toolVars>>
  \/ SearchEmbed /\ UNCHANGED <<ingestVars, toolVars>>
  \/ SearchDiscovery /\ UNCHANGED <<ingestVars, toolVars>>
  \/ SearchHybrid /\ UNCHANGED <<ingestVars, toolVars>>
  \/ SearchVector /\ UNCHANGED <<ingestVars, toolVars>>
  \/ SearchFallback /\ UNCHANGED <<ingestVars, toolVars>>
  \/ SearchApi /\ UNCHANGED <<ingestVars, toolVars>>
  \/ SearchRerank /\ UNCHANGED <<ingestVars, toolVars>>

SpecSearch == InitSearch /\ [][NextSearch]_vars

(***************************************************************************)
(* The TextSplitter facade.                                                *)
(***************************************************************************)
\* The embedder limit determineMaxChunkSize assumes when it is given none.
DefaultLimit == 1000
\* Bounds: a chunk size of a few characters, and an embedder limit under the
\* default one.
SmallChunk == 8
HalfLimit == 500

\* The chunk-size preferences the system setting can hold and the chunk
\* lengths an embedder can declare.
Preferreds ==
  {Undefined, Null, NaN, Text, Num(0), Num(SmallChunk), Num(DefaultLimit),
   Num(2 * DefaultLimit), NumStr(SmallChunk), NumStr(2 * DefaultLimit)}
EmbedderLimits == {Undefined, Num(SmallChunk), Num(HalfLimit), Num(DefaultLimit)}

\* Number(value).
ToNumber(value) ==
  CASE value.t = "number" -> value
    [] value.t = "numeric string" -> Num(value.v)
    [] value.t = "null" -> Num(0)
    [] OTHER -> NaN

\* isNaN(value): the value converted to a number is NaN.
IsNaN(value) == ToNumber(value).t = "NaN"

\* a > b on numbers: false when either is NaN.
Greater(a, b) == a.t = "number" /\ b.t = "number" /\ a.v > b.v

\* Builds that treat only one of the two as unset.
IsNullOnly(value) == value = Null
IsNaNOnly(value) == IsNaN(value)

IsNullOrNaN(value) == IF value = Null THEN TRUE ELSE IsNaN(value)

DetermineMaxChunkSize(preferredArg, embedderLimitArg) ==
  LET preferred == IF preferredArg = Undefined THEN Null ELSE preferredArg
      embedderLimit ==
        IF embedderLimitArg = Undefined THEN Num(DefaultLimit)
        ELSE embedderLimitArg
      prefValue ==
        IF IsNullOrNaN(preferred) THEN ToNumber(embedderLimit)
        ELSE ToNumber(preferred)
      limit == ToNumber(embedderLimit)
  IN IF Greater(prefValue, limit) THEN limit ELSE prefValue

RECURSIVE Length(_)
\* String.length.
Length(s) == IF s = <<>> THEN 0 ELSE Len(Head(s)) + Length(Tail(s))

\* !!value.
Truthy(value) == value.t = "array" \/ (value.t = "string" /\ value.s # <<>>)

\* value || null.
OrNull(value) == IF Truthy(value) THEN value ELSE JsNull

StartsWith(s, prefix) == s # <<>> /\ Head(s) = prefix

\* string.split(prefix)?.[1]: the text between the first and the second
\* occurrence of the prefix, undefined when the prefix does not occur.
SplitSecond(s, prefix) ==
  LET at == {i \in 1..Len(s) : s[i] = prefix}
  IN IF at = {} THEN Absent
     ELSE LET first == CHOOSE i \in at : \A j \in at : i <= j
              later == {j \in at : j > first}
              last ==
                IF later = {} THEN Len(s)
                ELSE (CHOOSE i \in later : \A j \in later : i <= j) - 1
          IN Str(SubSeq(s, first + 1, last))

MetadataKeys == {"title", "published", "chunkSource", "docAuthor"}
ValidPrefixes == <<"link://", "youtube://">>

\* Bounds: the metadata a document can carry.
Titles == {Absent, JsNull, Str(<<>>), Str(<<"Title">>)}
Publisheds == {Absent, Str(<<"1/1/2026">>)}
ChunkSources ==
  {Absent, JsNull, Str(<<>>), Str(<<"link://", "a.com">>),
   Str(<<"youtube://", "b">>), Str(<<"link://">>),
   Str(<<"link://", "link://">>), Str(<<"file://", "a.com">>),
   Str(<<"youtube://", "b", "link://", "a.com">>),
   Arr(<<"link://", "a.com">>)}
DocAuthors == {Absent, Str(<<"Author">>)}
Metadatas ==
  [given : {TRUE}, title : Titles, published : Publisheds,
   chunkSource : ChunkSources, docAuthor : DocAuthors]
    \cup {NoMetadata}

\* PLUCK_MAP: the metadata key, the header key it becomes, and its pluck.
PluckTitle(metadata) == OrNull(metadata.title)
PluckPublished(metadata) == OrNull(metadata.published)
PluckChunkSource(metadata) ==
  LET chunkSource == metadata.chunkSource
  IN IF \/ ~Truthy(chunkSource)
        \/ Len(chunkSource.s) = 0
        \/ chunkSource.t # "string"
        \/ ~\E k \in 1..Len(ValidPrefixes) :
              StartsWith(chunkSource.s, ValidPrefixes[k])
     THEN JsNull
     ELSE LET source1 == OrNull(SplitSecond(chunkSource.s, ValidPrefixes[1]))
              source2 == OrNull(SplitSecond(chunkSource.s, ValidPrefixes[2]))
          IN IF Truthy(source1) THEN source1 ELSE source2
PluckMap ==
  {[key |-> "title", as |-> "sourceDocument"],
   [key |-> "published", as |-> "published"],
   [key |-> "chunkSource", as |-> "source"]}
Pluck(key, metadata) ==
  CASE key = "title" -> PluckTitle(metadata)
    [] key = "published" -> PluckPublished(metadata)
    [] key = "chunkSource" -> PluckChunkSource(metadata)

\* A build that keeps a plucked value whatever it is.
SkipPluckedNever(pluckedValue) == FALSE

\* The plucked value is null or empty and the key is skipped.
SkipPlucked(pluckedValue) == ~Truthy(pluckedValue)

\* TextSplitter.buildHeaderMeta(metadata).
BuildHeaderMeta(metadata) ==
  IF ~metadata.given \/ \A key \in MetadataKeys : metadata[key] = Absent
  THEN NoHeaderMeta
  ELSE LET kept ==
             {e \in PluckMap :
                /\ metadata[e.key] # Absent
                /\ ~SkipPlucked(Pluck(e.key, metadata))}
       IN [null |-> FALSE,
           data |->
             IF kept = {} THEN <<>>
             ELSE [as \in {e.as : e \in kept} |->
                     Pluck((CHOOSE e \in kept : e.as = as).key, metadata)]]

\* TextSplitter.determineMaxChunkSize(preferred, embedderLimit) is called.
Determine ==
  /\ splitter.stage = "idle"
  /\ \E preferred \in Preferreds, embedderLimit \in EmbedderLimits :
       splitter' =
         [splitter EXCEPT !.stage = "sized", !.preferred = preferred,
                          !.embedderLimit = embedderLimit,
                          !.maxChunkSize =
                            DetermineMaxChunkSize(preferred, embedderLimit)]
  /\ UNCHANGED conversion

\* The result is put back in as the preference, under the same limit.
DetermineAgain ==
  /\ splitter.stage = "sized"
  /\ splitter' =
       [splitter EXCEPT !.stage = "resized",
                        !.preferred = splitter.maxChunkSize,
                        !.maxChunkSize =
                          DetermineMaxChunkSize(splitter.maxChunkSize,
                                                splitter.embedderLimit)]
  /\ UNCHANGED conversion

\* TextSplitter.buildHeaderMeta(metadata) is called, as the next argument of
\* the splitter to build.
BuildHeader ==
  /\ splitter.stage \in {"sized", "resized"}
  /\ \E metadata \in Metadatas :
       splitter' =
         [splitter EXCEPT !.stage = "headed", !.preferred = Undefined,
                          !.metadata = metadata,
                          !.chunkHeaderMeta = BuildHeaderMeta(metadata)]
  /\ UNCHANGED conversion

\* The chunk size and the overlap #setSplitter takes when it is given none.
DefaultChunkSize == 1000
DefaultChunkOverlap == 20

\* The key order of the header metadata object.
HeaderKeys == <<"sourceDocument", "published", "source">>

RECURSIVE HeaderContent(_, _)
\* The "key: value" lines of the entries from the k-th key on.
HeaderContent(data, k) ==
  IF k > Len(HeaderKeys) THEN <<>>
  ELSE LET key == HeaderKeys[k]
       IN IF key \in DOMAIN data /\ Truthy(data[key])
          THEN <<key, ": ">> \o data[key].s \o <<"\n">>
                 \o HeaderContent(data, k + 1)
          ELSE HeaderContent(data, k + 1)

\* stringifyHeader().
StringifyHeader(chunkHeaderMeta) ==
  IF chunkHeaderMeta.null THEN JsNull
  ELSE LET content == HeaderContent(chunkHeaderMeta.data, 1)
       IN IF content = <<>> THEN JsNull
          ELSE Str(<<"<document_metadata>\n">> \o content
                     \o <<"</document_metadata>\n\n">>)

\* Bounds: the file names a caller can give.
Filenames ==
  {NoFile, [base |-> "notes", ext |-> ".md"], [base |-> "README", ext |-> ".MD"],
   [base |-> "main", ext |-> ".py"], [base |-> "data", ext |-> ".csv"],
   [base |-> "photo", ext |-> ".bin"], [base |-> "Makefile", ext |-> ""],
   [base |-> "", ext |-> ".md"]}

\* path.extname(filename): a name that is nothing but a leading dot and
\* letters has no extension.
ExtName(filename) == IF filename.base = "" THEN "" ELSE filename.ext
\* toLowerCase().
ToLowerCase(extension) == IF extension = ".MD" THEN ".md" ELSE extension

\* FILE_EXTENSION_TO_SPLITTER, six of its rows.
FileExtensionToSplitter ==
  [extension \in {".md", ".tex", ".html", ".py", ".csv", ".txt"} |->
     CASE extension = ".md" -> [type |-> "string", value |-> "markdown"]
       [] extension = ".tex" -> [type |-> "string", value |-> "latex"]
       [] extension = ".html" -> [type |-> "string", value |-> "html"]
       [] extension = ".py" -> [type |-> "language", value |-> "python"]
       [] extension = ".csv" -> [type |-> "character", value |-> "\n"]
       [] extension = ".txt" -> [type |-> "character", value |-> "\n\n"]]

NoFileConfig == [null |-> TRUE, keys |-> <<>>]

\* A build that takes the extension as it is written.
LookupExtensionAsWritten(filename) == ExtName(filename)

\* The extension looked up in the table.
LookupExtension(filename) == ToLowerCase(ExtName(filename))

\* #getSplitterConfigFromFilename(filename).
GetSplitterConfigFromFilename(filename) ==
  IF filename = NoFile THEN NoFileConfig
  ELSE LET extension == LookupExtension(filename)
       IN IF extension \notin DOMAIN FileExtensionToSplitter THEN NoFileConfig
          ELSE LET config == FileExtensionToSplitter[extension]
               IN CASE config.type = "string" ->
                         [null |-> FALSE,
                          keys |-> [k \in {"splitterType"} |-> config.value]]
                    [] config.type = "language" ->
                         [null |-> FALSE,
                          keys |->
                            [k \in {"splitterType", "separators", "keepSeparator"}
                               |-> CASE k = "splitterType" -> "recursive"
                                     [] k = "separators" -> config.value
                                     [] k = "keepSeparator" -> "true"]]
                    [] config.type = "character" ->
                         [null |-> FALSE,
                          keys |->
                            [k \in {"splitterType", "separator", "keepSeparator"}
                               |-> CASE k = "splitterType" -> "character"
                                     [] k = "separator" -> config.value
                                     [] k = "keepSeparator" -> "false"]]

\* { ...fileConfig, ...config }.
Merge(fileConfig, config) ==
  [k \in DOMAIN fileConfig \cup DOMAIN config |->
     IF k \in DOMAIN config THEN config[k] ELSE fileConfig[k]]

\* config.key, "undefined" when the object has no such key.
Get(config, key) == IF key \in DOMAIN config THEN config[key] ELSE "undefined"
\* config.key || fallback.
GetOr(config, key, fallback) ==
  IF Get(config, key) \in {"undefined", "", "false"} THEN fallback
  ELSE Get(config, key)

\* Bounds: the strategy keys a caller can give; "" is a key given with an
\* empty value.
UserConfigs ==
  {config \in
     UNION {[keys -> {"", "markdown", "character", "token", "semantic", "|"}] :
              keys \in SUBSET {"splitterType", "separator"}} :
     /\ "splitterType" \in DOMAIN config => config.splitterType # "|"
     /\ "separator" \in DOMAIN config => config.separator = "|"}
UserOverlaps == {Undefined, Num(0)}

\* The first step of #setSplitter: the configuration after the file name
\* has been looked at.
Resolved(splitByFilename, config) ==
  IF splitByFilename # NoFile /\ GetOr(config, "splitterType", "") = ""
  THEN LET fileConfig == GetSplitterConfigFromFilename(splitByFilename)
       IN IF ~fileConfig.null THEN Merge(fileConfig.keys, config) ELSE config
  ELSE config

\* #setSplitter(config): the splitter class and the options it is built
\* with.
SetSplitter(splitByFilename, userConfig, chunkSizeArg, chunkOverlapArg, chunkHeaderMeta) ==
  LET config == Resolved(splitByFilename, userConfig)
      splitterType == GetOr(config, "splitterType", "recursive")
      chunkSize ==
        IF IsNaN(chunkSizeArg) THEN Num(DefaultChunkSize)
        ELSE ToNumber(chunkSizeArg)
      chunkOverlap ==
        IF IsNaN(chunkOverlapArg) THEN Num(DefaultChunkOverlap)
        ELSE ToNumber(chunkOverlapArg)
      common ==
        [NoEngine EXCEPT !.chunkSize = chunkSize,
                         !.chunkOverlap = chunkOverlap,
                         !.chunkHeader = StringifyHeader(chunkHeaderMeta)]
  IN CASE splitterType = "character" ->
            [common EXCEPT !.class = "CharacterSplitter",
                           !.separator = GetOr(config, "separator", "\n\n"),
                           !.keepSeparator =
                             GetOr(config, "keepSeparator", "false")]
       [] splitterType \in {"token", "markdown", "latex", "html"} ->
            [common EXCEPT !.class =
                             CASE splitterType = "token" -> "TokenSplitter"
                               [] splitterType = "markdown" -> "MarkdownSplitter"
                               [] splitterType = "latex" -> "LatexSplitter"
                               [] splitterType = "html" -> "HtmlSplitter"]
       [] OTHER ->
            [common EXCEPT !.class = "RecursiveSplitter",
                           !.separators = Get(config, "separators"),
                           !.keepSeparator =
                             IF Get(config, "keepSeparator") = "false"
                             THEN "false" ELSE "true"]

\* The splitter library refuses an overlap that is not under the chunk size.
EngineThrows(engine) == engine.chunkOverlap.v >= engine.chunkSize.v

\* new TextSplitter(config): the sized chunk length and the header metadata
\* are two of its keys.
Construct ==
  /\ splitter.stage = "headed"
  /\ \E splitByFilename \in Filenames, config \in UserConfigs,
        chunkOverlap \in UserOverlaps :
       LET engine ==
             SetSplitter(splitByFilename, config, splitter.maxChunkSize,
                         chunkOverlap, splitter.chunkHeaderMeta)
       IN splitter' =
            [splitter EXCEPT !.stage =
                               IF EngineThrows(engine) THEN "threw" ELSE "built",
                             !.metadata = NoMetadata,
                             !.splitByFilename = splitByFilename,
                             !.config = config,
                             !.engine = engine]
  /\ UNCHANGED conversion

\* Bound: the most chunks one text is split into.
MaxChunks == 2

\* What the splitter library's splitText makes of a text: chunks of content
\* of at most chunkSize, counted in the units of the strategy, that can be as
\* short as one character; a unit that the one separator of the character
\* strategy cannot split is a chunk of its own, however long.
EngineContents(engine) ==
  {[len |-> 1, unit |-> FALSE], [len |-> engine.chunkSize.v, unit |-> FALSE]}
    \cup IF engine.class = "CharacterSplitter"
         THEN {[len |-> engine.chunkSize.v + 1, unit |-> TRUE]}
         ELSE {}
EngineSplitText(engine) ==
  UNION {[1..n -> EngineContents(engine)] : n \in 0..MaxChunks}

\* What the library's createDocuments makes of the strings: each one with
\* the header before it.
CreateDocuments(strings, chunkHeader) ==
  [k \in 1..Len(strings) |->
     [header |-> chunkHeader.s, len |-> strings[k].len,
      unit |-> strings[k].unit]]

\* The length of a returned chunk.
ChunkLength(chunk) == Length(chunk.header) + chunk.len

\* _splitText(documentText) of every splitter class.
SplitTextOf(engine, strings) ==
  IF ~Truthy(engine.chunkHeader)
  THEN [k \in 1..Len(strings) |->
          [header |-> <<>>, len |-> strings[k].len, unit |-> strings[k].unit]]
  ELSE SelectSeq(CreateDocuments(strings, engine.chunkHeader),
                 LAMBDA doc : ChunkLength(doc) > 0)

\* splitText(documentText).
SplitText ==
  /\ splitter.stage = "built"
  /\ \E strings \in EngineSplitText(splitter.engine) :
       splitter' =
         [splitter EXCEPT !.stage = "split",
                          !.chunks = SplitTextOf(splitter.engine, strings)]
  /\ UNCHANGED conversion

\* The splitter is dropped.
Discard ==
  /\ splitter.stage # "idle"
  /\ splitter' = NoSplitter
  /\ UNCHANGED conversion

NextSplit ==
  \/ Determine /\ UNCHANGED <<ingestVars, searchVars, chat>>
  \/ DetermineAgain /\ UNCHANGED <<ingestVars, searchVars, chat>>
  \/ BuildHeader /\ UNCHANGED <<ingestVars, searchVars, chat>>
  \/ Construct /\ UNCHANGED <<ingestVars, searchVars, chat>>
  \/ SplitText /\ UNCHANGED <<ingestVars, searchVars, chat>>
  \/ Discard /\ UNCHANGED <<ingestVars, searchVars, chat>>

SpecSplit == InitIngest /\ [][NextSplit]_vars

(***************************************************************************)
(* The collector's file conversions asDocX and asPdf.                      *)
(***************************************************************************)
\* Bound: the most pages a loader returns.
MaxPages == 2

\* Bound: the most events of the upstream stream one handleStream call sees.
MaxEvents == 3
\* The arguments a caller can give; the defaults are empty strings.
FullFilePaths == {"", "/hotdir/file"}
ConvertFilenames == {"", "file"}
\* A page of a loaded document: no string content, nothing but white space,
\* text; a parsed PDF page is text or an image.
DocxPages == {"none", "blank", "text"}
PdfPages == {"text", "image"}
PagesOf(pages) == UNION {[1..n -> pages] : n \in 0..MaxPages}

\* The number of pages of a kind.
Count(docs, kinds) == Cardinality({k \in 1..Len(docs) : docs[k] \in kinds})

\* return { success, reason, documents }.
Returned(c, success, reason, documents) ==
  [c EXCEPT !.stage = "returned",
            !.result =
              [success |-> success, reason |-> reason, documents |-> documents]]
\* The promise of the conversion is rejected.
Rejected(c) == [c EXCEPT !.stage = "threw"]

\* trashFile(fullFilePath) is called.
TrashFile(c) == [c EXCEPT !.trashed = @ + 1]

\* trashFile and the failure result in a catch block: an error of trashFile
\* leaves the function.
CatchTrash(c, reason, throws) ==
  IF throws THEN Rejected(TrashFile(c))
  ELSE Returned(TrashFile(c), FALSE, reason, 0)

\* trashFile and the failure result in a try block whose catch block does
\* the same.
TryTrash(c, reason, catchReason, throws, catchThrows) ==
  IF throws THEN CatchTrash(TrashFile(c), catchReason, catchThrows)
  ELSE Returned(TrashFile(c), FALSE, reason, 0)

\* asDocX({ fullFilePath, filename }) is called: its input validation.
DocxStart ==
  /\ conversion.stage = "idle"
  /\ \E fullFilePath \in FullFilePaths, filename \in ConvertFilenames :
       LET c == [NoConversion EXCEPT !.kind = "asDocX",
                                     !.fullFilePath = fullFilePath,
                                     !.filename = filename]
       IN conversion' =
            IF fullFilePath = "" \/ filename = ""
            THEN Returned(c, FALSE, "Missing required parameters", 0)
            ELSE [c EXCEPT !.stage = "load"]
  /\ UNCHANGED splitter

\* asDocX: the loader runs.
DocxLoad ==
  /\ conversion.kind = "asDocX" /\ conversion.stage = "load"
  /\ \/ \E throws \in BOOLEAN :
          conversion' =
            CatchTrash(conversion, "Failed to load DOCX file", throws)
     \/ \E throws \in BOOLEAN, catchThrows \in BOOLEAN :
          conversion' =
            TryTrash(conversion, "No documents could be extracted",
                     "Failed to load DOCX file", throws, catchThrows)
     \/ \E docs \in PagesOf(DocxPages) \ {<<>>} :
          conversion' = [conversion EXCEPT !.stage = "process", !.docs = docs]
  /\ UNCHANGED splitter

\* asDocX: the pages are filtered and joined, the record is built and
\* written, and the source file is removed.
DocxProcess ==
  /\ conversion.kind = "asDocX" /\ conversion.stage = "process"
  /\ LET pageContent == Count(conversion.docs, {"text"})
         c == [conversion EXCEPT !.pageTexts = pageContent]
     IN IF pageContent = 0
        THEN \E throws \in BOOLEAN, catchThrows \in BOOLEAN :
               conversion' =
                 TryTrash(c, "No meaningful text content found",
                          "Unexpected error during processing", throws,
                          catchThrows)
        ELSE \E dateThrows \in BOOLEAN, tokenizerThrows \in BOOLEAN,
                writeThrows \in BOOLEAN, throws \in BOOLEAN,
                catchThrows \in BOOLEAN :
               LET data ==
                     [c EXCEPT !.published =
                                 IF dateThrows THEN "now" ELSE "created",
                               !.tokenCount =
                                 IF tokenizerThrows THEN "estimate"
                                 ELSE "tokenizer",
                               !.failed =
                                 {h \in {"createdDate"} : dateThrows}
                                   \cup {h \in {"tokenizeString"} :
                                           tokenizerThrows}
                                   \cup {h \in {"writeToServerDocuments"} :
                                           writeThrows}
                                   \cup {h \in {"trashFile"} :
                                           ~writeThrows /\ throws}]
               IN conversion' =
                    IF writeThrows
                    THEN TryTrash(data, "Failed to save processed document",
                                  "Unexpected error during processing",
                                  throws, catchThrows)
                    ELSE Returned(TrashFile([data EXCEPT !.persisted = @ + 1]),
                                  TRUE, "null", 1)
  /\ UNCHANGED splitter

\* asPdf({ fullFilePath, filename, options }) is called.
PdfStart ==
  /\ conversion.stage = "idle"
  /\ \E fullFilePath \in FullFilePaths, filename \in ConvertFilenames :
       conversion' =
         [NoConversion EXCEPT !.kind = "asPdf", !.stage = "read",
                              !.fullFilePath = fullFilePath,
                              !.filename = filename]
  /\ UNCHANGED splitter

\* asPdf: the file is read and parsed into pages; no file can be read at
\* the empty path.
PdfRead ==
  /\ conversion.kind = "asPdf" /\ conversion.stage = "read"
  /\ \/ \E throws \in BOOLEAN :
          conversion' = CatchTrash(conversion, "Failed to process PDF", throws)
     \/ /\ conversion.fullFilePath # ""
        /\ \E docs \in PagesOf(PdfPages) :
             conversion' =
               [conversion EXCEPT !.stage = "extract", !.docs = docs,
                                  !.pageTexts = Count(docs, {"text"}),
                                  !.ocrPages = Count(docs, {"image"})]
  /\ UNCHANGED splitter

\* asPdf: OCR for the image pages, plain extraction when there still is no
\* text, then the record is built and written and the source file removed.
PdfExtract ==
  /\ conversion.kind = "asPdf" /\ conversion.stage = "extract"
  /\ \E ocrTexts \in 0..conversion.ocrPages, simpleTexts \in 0..1 :
       LET afterOcr == conversion.pageTexts + ocrTexts
           pageTexts == IF afterOcr = 0 THEN simpleTexts ELSE afterOcr
           c == [conversion EXCEPT !.pageTexts = pageTexts]
       IN IF pageTexts = 0
          THEN \E throws \in BOOLEAN, catchThrows \in BOOLEAN :
                 conversion' =
                   TryTrash(c, "No text content found",
                            "Failed to process PDF", throws, catchThrows)
          ELSE \E failed \in {"none", "createdDate", "tokenizeString",
                               "writeToServerDocuments"},
                  throws \in BOOLEAN, catchThrows \in BOOLEAN :
                 conversion' =
                   IF failed # "none"
                   THEN CatchTrash([c EXCEPT !.failed = {failed}],
                                   "Failed to process PDF", catchThrows)
                   ELSE LET data ==
                              [c EXCEPT !.published = "created",
                                        !.tokenCount = "tokenizer",
                                        !.persisted = @ + 1,
                                        !.failed =
                                          {h \in {"trashFile"} : throws}]
                        IN IF throws
                           THEN CatchTrash(TrashFile(data),
                                           "Failed to process PDF", catchThrows)
                           ELSE Returned(TrashFile(data), TRUE, "null", 1)
  /\ UNCHANGED splitter

\* The caller takes the outcome.
ConvertDone ==
  /\ conversion.stage \in {"returned", "threw"}
  /\ conversion' = NoConversion
  /\ UNCHANGED splitter

NextConvert ==
  \/ DocxStart /\ UNCHANGED <<ingestVars, searchVars, chat>>
  \/ DocxLoad /\ UNCHANGED <<ingestVars, searchVars, chat>>
  \/ DocxProcess /\ UNCHANGED <<ingestVars, searchVars, chat>>
  \/ PdfStart /\ UNCHANGED <<ingestVars, searchVars, chat>>
  \/ PdfRead /\ UNCHANGED <<ingestVars, searchVars, chat>>
  \/ PdfExtract /\ UNCHANGED <<ingestVars, searchVars, chat>>
  \/ ConvertDone /\ UNCHANGED <<ingestVars, searchVars, chat>>

SpecConvert == InitIngest /\ [][NextConvert]_vars

(***************************************************************************)
(* AnthropicLLM.handleStream: the listeners it installs on the upstream     *)
(* stream and on the client's response.                                     *)
(***************************************************************************)
\* The text deltas of the upstream stream.
Deltas == {"a", "b"}

\* The events of the upstream stream: message_start and message_delta carry
\* token counts, content_block_delta carries a text delta or a delta of
\* another type, message_stop ends the message. No event of the API carries a
\* stop_reason at its top level.
Messages ==
  {[type |-> "message_start", deltaType |-> "none", text |-> "", tokens |-> 1,
    stop_reason |-> "null"],
   [type |-> "message_delta", deltaType |-> "none", text |-> "", tokens |-> 2,
    stop_reason |-> "null"],
   [type |-> "content_block_delta", deltaType |-> "input_json_delta",
    text |-> "", tokens |-> 0, stop_reason |-> "null"],
   [type |-> "message_stop", deltaType |-> "none", text |-> "", tokens |-> 0,
    stop_reason |-> "null"]}
    \cup {[type |-> "content_block_delta", deltaType |-> "text_delta",
           text |-> d, tokens |-> 0, stop_reason |-> "null"] : d \in Deltas}

\* resolve(value) of the promise: only the first call settles it.
Resolve(c, value) ==
  IF c.resolved THEN c ELSE [c EXCEPT !.resolved = TRUE, !.text = value]

\* writeResponseChunk(response, chunk): the chunk is handed to the response.
WriteResponseChunk(c, type, textResponse, close) ==
  [c EXCEPT !.chunks = Append(@, [type |-> type, textResponse |-> textResponse,
                                  close |-> close, afterClose |-> c.closed])]

\* stream.endMeasurement(usage): the monitor is told the usage.
EndMeasurement(c) == [c EXCEPT !.measurements = Append(@, c.usage)]

\* clientAbortedHandler(resolve, fullText): resolves with the text so far.
ClientAbortedHandler(c) == Resolve(c, c.fullText)

\* Lines 187-190: handleAbort.
HandleAbort(c) ==
  ClientAbortedHandler(EndMeasurement([c EXCEPT !.aborts = @ + 1]))

\* Lines 211 and 253: response.removeListener("close", handleAbort).
RemoveCloseListener(c) == [c EXCEPT !.closeListener = FALSE]

\* Lines 224-227: the event is a text delta.
IsTextDelta(data) ==
  data.type = "content_block_delta" /\ data.deltaType = "text_delta"

\* Lines 241-244: the event ends the message.
IsFinal(data) ==
  \/ data.type = "message_stop"
  \/ (data.stop_reason # "null" /\ data.stop_reason = "end_turn")

\* Lines 174-191 and the registrations of lines 193 and 216.
HandleStream ==
  /\ chat.stage = "none"
  /\ chat' = [NoChat EXCEPT !.stage = "open", !.closeListener = TRUE]
  /\ UNCHANGED <<splitter, conversion>>

\* Lines 216-257: the streamEvent listener, for one event of the stream. The
\* stream ends with its message_stop.
StreamEvent ==
  /\ chat.stage = "open"
  /\ chat.events < MaxEvents
  /\ \E data \in Messages :
       LET c0 == [chat EXCEPT !.events = @ + 1]
           c1 == IF data.type = "message_start"
                   THEN [c0 EXCEPT !.usage.prompt_tokens = data.tokens]
                   ELSE c0
           c2 == IF data.type = "message_delta"
                   THEN [c1 EXCEPT !.usage.completion_tokens = data.tokens]
                   ELSE c1
           c3 == IF IsTextDelta(data)
                   THEN WriteResponseChunk(
                          [c2 EXCEPT !.fullText = Append(@, data.text),
                                     !.arrived = IF c2.resolved THEN @
                                                 ELSE Append(@, data.text)],
                          "textResponseChunk", data.text, FALSE)
                   ELSE c2
           c4 == IF IsFinal(data)
                   THEN Resolve(
                          EndMeasurement(RemoveCloseListener(
                            WriteResponseChunk(
                              [c3 EXCEPT !.stage = "over", !.ended = "stop"],
                              "textResponseChunk", "", TRUE))),
                          c3.fullText)
                   ELSE c3
       IN chat' = c4
  /\ UNCHANGED <<splitter, conversion>>

\* Lines 193-214: the error listener. The stream emits nothing after its
\* error.
StreamError ==
  /\ chat.stage = "open"
  /\ chat' = Resolve(
               EndMeasurement(RemoveCloseListener(
                 WriteResponseChunk(
                    [chat EXCEPT !.stage = "over", !.ended = "error"],
                    "abort", "null", TRUE))),
               chat.fullText)
  /\ UNCHANGED <<splitter, conversion>>

\* The client's response emits close, once: handleAbort runs if it still
\* listens (line 191).
ResponseClose ==
  /\ chat.stage \in {"open", "over"}
  /\ ~chat.closed
  /\ LET c == [chat EXCEPT !.closed = TRUE]
     IN chat' = IF c.closeListener
                  THEN HandleAbort([c EXCEPT !.lateAborts =
                                      IF c.ended # "none" THEN @ + 1 ELSE @])
                  ELSE c
  /\ UNCHANGED <<splitter, conversion>>

\* The promise was awaited; the next chat starts from scratch.
StreamDone ==
  /\ chat.stage = "over"
  /\ chat.resolved
  /\ chat' = NoChat
  /\ UNCHANGED <<splitter, conversion>>

NextStream ==
  \/ HandleStream /\ UNCHANGED <<ingestVars, searchVars>>
  \/ StreamEvent /\ UNCHANGED <<ingestVars, searchVars>>
  \/ StreamError /\ UNCHANGED <<ingestVars, searchVars>>
  \/ ResponseClose /\ UNCHANGED <<ingestVars, searchVars>>
  \/ StreamDone /\ UNCHANGED <<ingestVars, searchVars>>

SpecStream == InitIngest /\ [][NextStream]_vars

(***************************************************************************)
(* Properties.                                                             *)
(***************************************************************************)
VectorIds(rows) == {rows[k].vectorId : k \in 1..Len(rows)}

\* The ids of the points stored in a namespace.
PointIds(n) == {pt.id : pt \in points[n]}

Quiet == \A p \in Procs : pc[p] = "idle"

\* C1: when an upsert batch fails on every allowed attempt, the call returns
\* the failure result {vectorized: false, error}; it submits no later batch,
\* the batches it had upserted stay in the namespace, and it writes neither
\* the vector cache nor the document-to-vector index.
C1_ExhaustedUpsertFailsTheCall ==
  \A p \in Procs :
    call[p].exhausted =>
      /\ pc[p] = "idle"
      /\ call[p].result = "failed"
      /\ call[p].error = "upsert"
      /\ ~call[p].afterExhausted
      /\ call[p].acked \subseteq PointIds(call[p].ns)
      /\ ~call[p].wroteCache
      /\ call[p].indexed = <<>>

\* A call whose second upsert batch failed three times after its first landed.
C1_Witness ==
  \E p \in Procs :
    /\ call[p].exhausted
    /\ call[p].result = "failed"
    /\ Cardinality(call[p].acked) = UpsertBatchSize

\* C2: once every call has returned, every vector stored in a namespace has a
\* (docId, vectorId) row in the document-to-vector index.
C2_EveryStoredVectorIsIndexed ==
  Quiet => \A n \in NS : PointIds(n) \subseteq VectorIds(index)

\* C3: when addDocumentToNamespace returns success, the rows it appended to
\* the index name exactly the vectors it upserted, once each, under its docId.
C3_SuccessIndexesExactlyTheUpserted ==
  \A p \in Procs :
    (call[p].kind = "add" /\ call[p].result = "vectorized") =>
      /\ VectorIds(call[p].indexed) = call[p].landed
      /\ call[p].landed = call[p].acked
      /\ Len(call[p].indexed) = Cardinality(call[p].landed)
      /\ \A k \in 1..Len(call[p].indexed) :
           call[p].indexed[k].docId = call[p].docId
      /\ (started = call[p].no) =>
           \A v \in call[p].landed :
             /\ v \in PointIds(call[p].ns)
             /\ Cardinality({k \in 1..Len(index) :
                   index[k].vectorId = v /\ index[k].docId = call[p].docId}) = 1

\* A successful replay of cached vectors that upserted something.
C3_Witness ==
  \E p \in Procs :
    /\ call[p].result = "vectorized"
    /\ call[p].mode = "cached"
    /\ Cardinality(call[p].landed) = SmallDoc

\* C4: when an embedding batch returns no vectors the call returns the failure
\* result and has committed nothing: it created no namespace, upserted no
\* vector, wrote no cache and appended no index row.
C4_EmptyEmbeddingCommitsNothing ==
  \A p \in Procs :
    call[p].embZero =>
      /\ pc[p] = "idle"
      /\ call[p].result = "failed"
      /\ ~call[p].created
      /\ call[p].landed = {}
      /\ ~call[p].wroteCache
      /\ call[p].indexed = <<>>

\* A call whose later embedding batch came back empty after earlier ones
\* had returned vectors.
C4_Witness ==
  \E p \in Procs :
    /\ call[p].embZero
    /\ call[p].embedded = 2 * EmbedBatchSize
    /\ call[p].result = "failed"

\* C5: a caller that saw the namespace missing and finds it created by
\* another caller when its own create request arrives does not fail on
\* "already exists".
C5_CreateRaceIsTolerated ==
  \A p \in Procs :
    call[p].raced => ~(call[p].result = "failed" /\ call[p].error = "exists")

\* C6: no public operation lets an exception cross its boundary.
C6_NoOperationThrows ==
  \A p \in Procs : call[p].result # "threw"

\* C7: no returned source has a similarity score below similarityThreshold.
C7_NoResultBelowThreshold ==
  out.kind = "result" =>
    \A k \in 1..Len(out.sources) :
      ~(ScoreOfId(out.sources[k].id) < req.similarityThreshold)

\* C8: no returned context text and no returned source belongs to a document
\* whose source identifier is in filterIdentifiers, whatever the strategy,
\* after a fallback and after re-ranking.
C8_NoPinnedSourceReturned ==
  out.kind = "result" =>
    /\ \A k \in 1..Len(out.sources) :
         SourceIdentifier(out.sources[k]) \notin req.filterIdentifiers
    /\ \A k \in 1..Len(out.contextTexts) :
         SrcOfText(out.contextTexts[k]) \notin req.filterIdentifiers

\* A re-ranked discovery search that returned a source while a document was
\* pinned.
C8_Witness ==
  /\ out.kind = "result"
  /\ shist.dispatched = "discovery"
  /\ ~shist.fellBack
  /\ shist.reranked
  /\ req.filterIdentifiers = {"a"}
  /\ Len(out.sources) > 0

\* C9: when the hybrid or discovery request fails, that error is not
\* propagated, and the candidates are those similarityResponse makes of the
\* index's answer under the call's own similarityThreshold and
\* filterIdentifiers: what plain vector search returns.
C9_FallbackEqualsVectorSearch ==
  shist.fellBack =>
    /\ spc = "fallback" => out.kind = "none"
    /\ shist.answered =>
         LET plain == SimilarityResponse(shist.plainAnswer,
                        req.similarityThreshold, req.filterIdentifiers)
         IN /\ shist.candidates = plain
            /\ (spc = "done" /\ ~req.rerank) => out = PlainReturn(plain)

\* A hybrid search that fell back and whose fallback dropped a point.
C9_Witness ==
  /\ shist.fellBack
  /\ shist.dispatched = "hybrid"
  /\ shist.answered
  /\ spc = "done"
  /\ ~req.rerank
  /\ Len(out.contextTexts) = 1
  /\ Len(shist.plainAnswer) = 2

C11_MissingNamespaceReturnsEmpty ==
  shist.missing =>
    /\ spc = "done"
    /\ out.kind = "result"
    /\ out.contextTexts = <<>>
    /\ out.sources = <<>>
    /\ out.message = "Invalid query - no documents found for workspace!"
    /\ ~shist.embedCalled
    /\ shist.queries = 0
    /\ shist.ran = {}

\* A re-ranked hybrid search was asked for and the namespace was missing.
C11_Witness ==
  /\ shist.missing
  /\ spc = "done"
  /\ req.strategy = "hybrid"
  /\ req.rerank

\* C12: a search that gets to its dispatch runs one strategy and no other:
\* discovery exactly when discovery is requested with context pairs, else
\* hybrid exactly when hybrid is requested, else plain vector similarity.
C12_OneStrategyDispatched ==
  LET expected ==
        IF req.strategy = "discovery" /\ req.pairs THEN "discovery"
        ELSE IF req.strategy = "hybrid" THEN "hybrid"
        ELSE "vector"
  IN /\ shist.ran \subseteq {expected}
     /\ (shist.answered \/ shist.queries > 0) => shist.ran = {expected}
     /\ shist.dispatched \in {"none", expected}
     /\ spc \in {"discovery", "hybrid", "vector"} => spc = expected

\* A discovery request without context pairs was answered by plain vector
\* search.
C12_Witness ==
  /\ req.strategy = "discovery"
  /\ ~req.pairs
  /\ shist.answered
  /\ shist.ran = {"vector"}
  /\ spc = "done"

C14_DeleteRemovesVectorsThenRows ==
  \A p \in Procs :
    call[p].kind = "delete" =>
      /\ (pc[p] = "idle" /\ call[p].result = "true"
            /\ collections[call[p].ns].exists) =>
           /\ RowsOf(index, call[p].docId) = <<>>
           /\ VectorIds(RowsOf(call[p].indexAtStart, call[p].docId))
                 \cap PointIds(call[p].ns) = {}
      /\ pc[p] \in {"where", "deleteBatch", "deleteIds"} =>
           index = call[p].indexAtStart
      /\ (pc[p] = "idle" /\ call[p].result = "threw") =>
           index = call[p].indexAtStart

\* C15: deleteDocumentFromNamespace for a document without rows in the index,
\* in a namespace that exists and with the index reachable, returns true; it
\* sends no delete request and removes no row.
C15_UnknownDocumentIsNoOp ==
  \A p \in Procs :
    (/\ call[p].kind = "delete"
     /\ RowsOf(call[p].indexAtStart, call[p].docId) = <<>>
     /\ collections[call[p].ns].exists
     /\ call[p].error # "connect") =>
      /\ pc[p] \in {"idle", "where"}
      /\ pc[p] = "idle" => call[p].result = "true"
      /\ call[p].deleteRequests = 0
      /\ ~call[p].removedRows
      /\ index = call[p].indexAtStart

\* The call looked the document up, found nothing and returned, while the
\* namespace held vectors of another document.
C15_Witness ==
  \E p \in Procs :
    /\ call[p].kind = "delete"
    /\ pc[p] = "idle"
    /\ call[p].result = "true"
    /\ ~call[p].skipped
    /\ RowsOf(call[p].indexAtStart, call[p].docId) = <<>>
    /\ call[p].indexAtStart # <<>>
    /\ points[call[p].ns] # {}

\* C16: deleteDocumentFromNamespace on a namespace that does not exist, with
\* the index reachable, returns true; it sends no delete request and leaves
\* the index as it was, rows of the document included.
C16_MissingNamespaceIsNoOp ==
  \A p \in Procs :
    (/\ call[p].kind = "delete"
     /\ ~collections[call[p].ns].exists
     /\ call[p].error # "connect") =>
      /\ pc[p] = "idle"
      /\ call[p].result = "true"
      /\ call[p].deleteRequests = 0
      /\ ~call[p].removedRows
      /\ index = call[p].indexAtStart

\* The document has rows in the index, recorded for another namespace.
C16_Witness ==
  \E p \in Procs :
    /\ call[p].kind = "delete"
    /\ pc[p] = "idle"
    /\ call[p].result = "true"
    /\ ~collections[call[p].ns].exists
    /\ RowsOf(index, call[p].docId) # <<>>

\* C17: once reset has listed the collections it has sent a delete request
\* for every one of them; a request that fails stops no other request, and
\* the call returns {reset: true} when all of them have settled.
C17_ResetDeletesEveryNamespace ==
  \A p \in Procs :
    (call[p].kind = "reset" /\ call[p].error \notin {"connect", "list"}) =>
      /\ call[p].requested = call[p].enumerated
      /\ pc[p] = "idle" =>
           /\ call[p].result = "reset"
           /\ call[p].settled = call[p].enumerated
           /\ \A n \in call[p].enumerated \ call[p].failedDeletes :
                ~collections[n].exists

\* Of two collections listed, one delete request failed and the other
\* deleted its collection.
C17_Witness ==
  \E p \in Procs :
    /\ call[p].kind = "reset"
    /\ pc[p] = "idle"
    /\ call[p].result = "reset"
    /\ call[p].enumerated = NS
    /\ Cardinality(call[p].failedDeletes) = 1

\* C18: addDocumentToNamespace without page content returns false and does
\* not throw; it does not look the cache up, split, embed, connect, create a
\* namespace, upsert or write the index.
C18_NoContentDoesNothing ==
  \A p \in Procs :
    (call[p].kind = "add" /\ call[p].content \in {"missing", "empty"}) =>
      /\ pc[p] = "idle"
      /\ call[p].result = "false"
      /\ ~call[p].lookedUp
      /\ ~call[p].split
      /\ call[p].embedCalls = 0
      /\ ~call[p].connected
      /\ ~call[p].created
      /\ call[p].landed = {}
      /\ ~call[p].wroteCache
      /\ call[p].indexed = <<>>

\* A call without page content that asked for the cache of a source that has
\* one.
C18_Witness ==
  \E p \in Procs :
    /\ call[p].kind = "add"
    /\ call[p].content = "empty"
    /\ call[p].skipCache
    /\ call[p].hadCache
    /\ call[p].result = "false"

\* C19: the cache is looked up only when skipCache is set; a call with
\* skipCache set and no cache for its source takes the fresh path; a call on
\* the cache path calls neither the splitter nor the embedder, and upserts
\* every replayed vector under a new id, none of them an id of the vectors
\* the cache was written from.
C19_CachePathNeverEmbeds ==
  \A p \in Procs :
    (call[p].kind = "add" /\ call[p].content = "text") =>
      /\ call[p].lookedUp => call[p].skipCache
      /\ call[p].mode = "cached" <=> (call[p].skipCache /\ call[p].hadCache)
      /\ call[p].mode = "fresh" <=> ~(call[p].skipCache /\ call[p].hadCache)
      /\ call[p].mode = "fresh" => call[p].split
      /\ call[p].mode = "cached" =>
           /\ ~call[p].split
           /\ call[p].embedCalls = 0
           /\ call[p].embedded = 0
           /\ call[p].landed
                 \cap {pt.id : pt \in cache[call[p].file].origin} = {}
           /\ \A j, k \in 1..Len(call[p].vectors) :
                j # k => call[p].vectors[j].id # call[p].vectors[k].id

\* A replay into the namespace that still holds the vectors the cache was
\* written from.
C19_Witness ==
  \E p \in Procs :
    /\ call[p].kind = "add"
    /\ call[p].mode = "cached"
    /\ call[p].result = "vectorized"
    /\ Cardinality(call[p].landed) = SmallDoc
    /\ cache[call[p].file].origin \subseteq points[call[p].ns]
    /\ cache[call[p].file].origin # {}

\* The multiset of the texts of a set of points.
TextBag(pts) ==
  [t \in {pt.text : pt \in pts} |-> Cardinality({pt \in pts : pt.text = t})]

\* C20: a successful ingest through the cache path puts into the namespace
\* the same multiset of chunk texts as the fresh ingest that wrote the cache,
\* under other vector ids.
C20_ReplayPutsTheSameTexts ==
  \A p \in Procs :
    (call[p].kind = "add" /\ call[p].mode = "cached"
       /\ call[p].result = "vectorized") =>
      /\ TextBag(call[p].put) = TextBag(cache[call[p].file].origin)
      /\ {pt.id : pt \in call[p].put}
           \cap {pt.id : pt \in cache[call[p].file].origin} = {}

\* The items of a cache, chunk after chunk.
RECURSIVE CachedItems(_)
CachedItems(chunks) ==
  IF chunks = <<>> THEN <<>> ELSE Head(chunks) \o CachedItems(Tail(chunks))

\* C21: a replay upserts and indexes no cached vector whose payload lacks
\* the id marker and does not fail because of one; when it succeeds, every
\* cached vector with the marker has been upserted and indexed, once.
C21_UnmarkedVectorsAreSkipped ==
  \A p \in Procs :
    (call[p].kind = "add" /\ call[p].mode = "cached") =>
      LET items == CachedItems(cache[call[p].file].chunks)
          marked == SelectSeq(items, LAMBDA it : it.hasId)
          skipped == SelectSeq(items, LAMBDA it : ~it.hasId)
      IN /\ \A pt \in call[p].put :
              \E k \in 1..Len(marked) : marked[k].text = pt.text
         /\ (pc[p] = "idle" /\ call[p].result = "failed") =>
              call[p].error \in {"connect", "nochunks", "dimension",
                                 "create", "exists", "upsert"}
         /\ (pc[p] = "idle" /\ call[p].result = "vectorized") =>
              /\ Cardinality(call[p].put) = Len(marked)
              /\ Len(call[p].indexed) = Len(marked)
              /\ VectorIds(call[p].indexed) = {pt.id : pt \in call[p].put}
              /\ \A k \in 1..Len(marked) :
                   \E pt \in call[p].put : pt.text = marked[k].text
              /\ \A k \in 1..Len(skipped) :
                   \A pt \in call[p].put : pt.text # skipped[k].text

\* A successful replay of a cache with marked and unmarked items, one chunk
\* of which holds unmarked items only.
C21_Witness ==
  \E p \in Procs :
    /\ call[p].kind = "add"
    /\ call[p].mode = "cached"
    /\ call[p].result = "vectorized"
    /\ cache[call[p].file] = PriorCache
    /\ Cardinality(call[p].put) = 2

\* C22: a namespace is created with the length of the first embedded vector
\* and the Cosine metric, and every vector a call submits to a namespace has
\* the length the namespace was created with.
C22_OneDimensionPerNamespace ==
  /\ \A n \in NS : collections[n].exists =>
        collections[n].distance = "Cosine" /\ collections[n].dim \in Dims
  /\ \A p \in Procs :
       /\ (call[p].created /\ Len(call[p].allVectors) > 0) =>
            collections[call[p].ns].dim = call[p].allVectors[1].dim
       /\ ~call[p].misfit

\* The limit determineMaxChunkSize works with: the one given, or the default.
LimitOf(s) ==
  IF s.embedderLimit = Undefined THEN Num(DefaultLimit) ELSE s.embedderLimit

\* C23: determineMaxChunkSize returns the smaller of the preference and the
\* embedder limit when the preference is a number, the embedder limit when
\* the preference is null or NaN, and never more than the embedder limit.
C23_MaxChunkSizeIsClampedPreference ==
  splitter.stage \in {"sized", "resized"} =>
    /\ splitter.preferred.t = "number" =>
         splitter.maxChunkSize =
           Num(Min(splitter.preferred.v, LimitOf(splitter).v))
    /\ splitter.preferred \in {Null, NaN} =>
         splitter.maxChunkSize = LimitOf(splitter)
    /\ splitter.maxChunkSize.t = "number"
    /\ splitter.maxChunkSize.v <= LimitOf(splitter).v

C23_Witness ==
  /\ splitter.stage = "sized"
  /\ splitter.preferred = Num(2 * DefaultLimit)
  /\ splitter.embedderLimit = Num(HalfLimit)
  /\ splitter.maxChunkSize = Num(HalfLimit)

\* C24: under a fixed limit, applying determineMaxChunkSize to its own result
\* gives the same result again, and determineMaxChunkSize(null, 500) is 500.
C24_DetermineIsIdempotent ==
  /\ splitter.stage = "resized" => splitter.maxChunkSize = splitter.preferred
  /\ (/\ splitter.stage = "sized"
      /\ splitter.preferred = Null
      /\ splitter.embedderLimit = Num(HalfLimit))
       => splitter.maxChunkSize = Num(HalfLimit)

C24_Witness ==
  /\ splitter.stage = "resized"
  /\ splitter.embedderLimit = Num(HalfLimit)
  /\ splitter.preferred = Num(HalfLimit)
  /\ splitter.maxChunkSize = Num(HalfLimit)

ClassNamed(splitterType) ==
  CASE splitterType = "character" -> "CharacterSplitter"
    [] splitterType = "token" -> "TokenSplitter"
    [] splitterType = "markdown" -> "MarkdownSplitter"
    [] splitterType = "latex" -> "LatexSplitter"
    [] splitterType = "html" -> "HtmlSplitter"
    [] OTHER -> "RecursiveSplitter"

\* C28: the facade resolves its strategy in a fixed order. A splitterType
\* given by the caller wins and the file name then changes nothing; without
\* one, the lower-cased extension of the file name is looked up in the table;
\* without a file name or a row for the extension, the recursive strategy is
\* used. A key the caller gives overrides the key the file name gives.
C28_StrategyResolutionOrder ==
  splitter.stage \in {"built", "threw"} =>
    LET config == splitter.config
        filename == splitter.splitByFilename
        engine == splitter.engine
        extension == ToLowerCase(ExtName(filename))
        explicit ==
          "splitterType" \in DOMAIN config /\ config.splitterType # ""
        listed == filename # NoFile /\ extension \in DOMAIN FileExtensionToSplitter
    IN /\ explicit =>
            /\ engine.class = ClassNamed(config.splitterType)
            /\ engine =
                 SetSplitter(NoFile, config, engine.chunkSize,
                             engine.chunkOverlap, splitter.chunkHeaderMeta)
       /\ (~explicit /\ listed /\ "splitterType" \notin DOMAIN config) =>
            LET row == FileExtensionToSplitter[extension]
            IN CASE row.type = "string" -> engine.class = ClassNamed(row.value)
                 [] row.type = "language" ->
                      /\ engine.class = "RecursiveSplitter"
                      /\ engine.separators = row.value
                 [] row.type = "character" ->
                      /\ engine.class = "CharacterSplitter"
                      /\ engine.separator =
                           IF "separator" \in DOMAIN config
                           THEN config.separator ELSE row.value
       /\ (~explicit /\ ~listed) => engine.class = "RecursiveSplitter"
       /\ (~explicit /\ "splitterType" \in DOMAIN config) =>
            engine.class = "RecursiveSplitter"

C28_Witness ==
  /\ splitter.stage = "built"
  /\ splitter.splitByFilename = [base |-> "README", ext |-> ".MD"]
  /\ DOMAIN splitter.config = {}
  /\ splitter.engine.class = "MarkdownSplitter"

\* C25: with a header configured, every chunk splitText returns starts with
\* the header, and the header counts toward the size: the length of the header
\* plus the length of the content is at most chunkSize for every chunk whose
\* content is not one unit that could not be split.
C25_HeaderCountsTowardChunkSize ==
  (splitter.stage = "split" /\ splitter.engine.chunkHeader.t = "string") =>
    \A k \in 1..Len(splitter.chunks) :
      /\ splitter.chunks[k].header = splitter.engine.chunkHeader.s
      /\ ~splitter.chunks[k].unit =>
           ChunkLength(splitter.chunks[k]) <= splitter.engine.chunkSize.v

\* The splitter is the one addDocumentToNamespace builds: a chunk size, an
\* overlap and header metadata, no file name and no strategy key.
BuiltByAddDocument ==
  /\ splitter.stage = "split"
  /\ splitter.splitByFilename = NoFile
  /\ DOMAIN splitter.config = {}

\* C26: every chunk addDocumentToNamespace passes to the embedder, header
\* included, is no longer than the embedder's embeddingMaxChunkLength,
\* whatever chunk size the system setting asks for.
C26_ChunksFitTheEmbedder ==
  (BuiltByAddDocument /\ splitter.embedderLimit # Undefined) =>
    \A k \in 1..Len(splitter.chunks) :
      ChunkLength(splitter.chunks[k]) <= splitter.embedderLimit.v

\* C27: splitText returns no chunk whose trimmed length is under the minimum
\* chunk size of 100.
C27_NoChunkUnderMinimum ==
  splitter.stage = "split" =>
    \A k \in 1..Len(splitter.chunks) : ChunkLength(splitter.chunks[k]) >= 100

\* C30: whenever asDocX or asPdf returns success:false, removal of the
\* source file has been attempted before the result is returned.
C30_FailureAttemptsCleanup ==
  (conversion.stage = "returned" /\ ~conversion.result.success) =>
    conversion.trashed >= 1

\* C31: when the tokenizer fails while a file is converted and nothing else
\* does, the conversion returns success and the record's token count is the
\* estimate of one token per four characters, for asDocX and for asPdf.
C31_TokenizerFailureFallsBack ==
  (conversion.stage \in {"returned", "threw"}
     /\ conversion.failed = {"tokenizeString"}) =>
    /\ conversion.stage = "returned"
    /\ conversion.result.success
    /\ conversion.tokenCount = "estimate"

\* C39: a conversion returns success:true exactly when it has persisted one
\* document record, and has persisted none when it returns success:false,
\* also when removing the source file fails after the record was written.
C39_SuccessIffOneRecordPersisted ==
  conversion.stage = "returned" =>
    /\ conversion.result.success <=> conversion.persisted = 1
    /\ ~conversion.result.success => conversion.persisted = 0


\* C32: within one batchInsertVectors call each batch is submitted at most
\* three times and never again once an attempt answered 'completed'; an answer
\* with another status is a failed attempt exactly as a thrown error is; the
\* wait before re-attempt k (k = 1, 2) is 2^(k-1) x 1000 ms and nothing is
\* slept after the last failed attempt; no batch is submitted before every
\* batch ahead of it was acknowledged.
C32_RetriesAreBoundedAndBackedOff ==
  \A p \in Procs :
    LET c == call[p]
    IN /\ c.tries <= Retries
       /\ ~c.resent
       /\ ~c.early
       /\ pc[p] = "upsert" =>
            /\ c.tries = c.attempt
            /\ c.sleeps = c.attempt
            /\ c.attempt = 0 => c.waited = 0
            /\ \A k \in 1..(Retries - 1) :
                 c.attempt = k => c.waited = (2 ^ (k - 1)) * 1000
       /\ c.exhausted =>
            /\ c.tries = Retries
            /\ c.sleeps = Retries - 1
            /\ c.waited = (2 ^ (Retries - 2)) * 1000

\* A second batch is on its third attempt, two seconds after its second one;
\* both attempts were answered with a status other than 'completed'.
C32_Witness ==
  \E p \in Procs :
    /\ pc[p] = "upsert"
    /\ call[p].i = UpsertBatchSize
    /\ call[p].attempt = Retries - 1
    /\ call[p].waited = 2000
    /\ call[p].landed = call[p].acked


\* C33: the fresh path of addDocumentToNamespace is strictly sequential: a
\* call has one request under way at a time, sends no upsert before every
\* embedding batch has returned, writes the vector cache and extends the
\* document-to-vector index only after every upsert batch succeeded, and
\* writes the cache before it extends the index.
C33_FreshPathIsSequential ==
  \A p \in Procs :
    LET c == call[p]
        made == {c.allVectors[k].id : k \in 1..Len(c.allVectors)}
        rows == {c.indexed[k].vectorId : k \in 1..Len(c.indexed)}
    IN (c.kind = "add" /\ c.mode = "fresh") =>
         /\ pc[p] = "embed" =>
              /\ ~c.connected /\ c.tries = 0 /\ c.put = {}
              /\ ~c.wroteCache /\ c.indexed = <<>>
         /\ (c.connected \/ c.put # {}) =>
              c.embedCalls * EmbedBatchSize >= c.n
         /\ pc[p] \in {"connect", "create", "upsert"} =>
              ~c.wroteCache /\ c.indexed = <<>>
         /\ pc[p] \in {"store", "bulkInsert"} =>
              made \subseteq c.acked /\ c.indexed = <<>>
         /\ pc[p] = "store" => ~c.wroteCache
         /\ (pc[p] = "bulkInsert" /\ c.file # NoPath) => c.wroteCache
         /\ c.wroteCache => c.result \in {"none", "vectorized"}
         /\ c.indexed # <<>> =>
              /\ rows \subseteq c.acked
              /\ c.file # NoPath => c.wroteCache

\* A fresh call for a document with a file has embedded, upserted, written
\* the cache and extended the index.
C33_Witness ==
  \E p \in Procs :
    /\ call[p].mode = "fresh"
    /\ call[p].result = "vectorized"
    /\ call[p].wroteCache
    /\ Len(call[p].indexed) = SmallDoc
    /\ call[p].embedCalls = 1


RECURSIVE Flatten(_)
\* The requests of a log laid end to end.
Flatten(log) == IF log = <<>> THEN <<>> ELSE Head(log) \o Flatten(Tail(log))

\* s is the beginning of t.
IsPrefix(s, t) == Len(s) <= Len(t) /\ s = SubSeq(t, 1, Len(s))

\* C34: the fresh path sends the chunk list to the embedder as consecutive
\* slices of at most 50 chunks and the vector list to the index as consecutive
\* slices of at most 100 points; each chunk and each vector is in exactly one
\* of these slices, in document order.
C34_BatchesPartitionInOrder ==
  \A p \in Procs :
    LET c == call[p]
        textChunks == [k \in 1..c.n |-> Chunk(c.docId, k)]
        sent == Flatten(c.embedLog)
        put == Flatten(c.upsertLog)
        made == [k \in 1..Len(c.indexed) |-> c.indexed[k].vectorId]
    IN (c.kind = "add" /\ c.mode = "fresh") =>
         /\ \A k \in 1..Len(c.embedLog) :
              /\ Len(c.embedLog[k]) \in 1..EmbedBatchSize
              /\ k < Len(c.embedLog) => Len(c.embedLog[k]) = EmbedBatchSize
         /\ \A k \in 1..Len(c.upsertLog) :
              /\ Len(c.upsertLog[k]) \in 1..UpsertBatchSize
              /\ k < Len(c.upsertLog) => Len(c.upsertLog[k]) = UpsertBatchSize
         /\ IsPrefix(sent, textChunks)
         /\ pc[p] \in {"upsert", "store", "bulkInsert"} =>
              /\ sent = textChunks
              /\ IsPrefix(put, [k \in 1..Len(c.allVectors) |->
                                  c.allVectors[k].id])
         /\ c.result = "vectorized" =>
              /\ sent = textChunks
              /\ put = made

\* A document of 101 chunks went out as three embedding requests and two
\* upsert requests.
C34_Witness ==
  \E p \in Procs :
    /\ call[p].mode = "fresh"
    /\ call[p].result = "vectorized"
    /\ Len(call[p].embedLog) = 3
    /\ Len(call[p].upsertLog) = 2
    /\ Len(call[p].upsertLog[2]) = 1


\* C35: every retry of an upsert batch resubmits the point ids of the first
\* attempt, so once addDocumentToNamespace has returned success each id it
\* generated occurs exactly once in the namespace, also when the index had
\* applied an attempt it reported as failed.
C35_RetriesKeepThePointIds ==
  \A p \in Procs :
    LET c == call[p]
    IN c.kind = "add" =>
         /\ ~c.reshuffled
         /\ (c.result = "vectorized" /\ started = c.no) =>
              \A k \in 1..Len(c.indexed) :
                Cardinality({pt \in points[c.ns] :
                               pt.id = c.indexed[k].vectorId}) = 1

\* A call succeeded after an attempt that the index applied and reported as
\* failed.
C35_Witness ==
  \E p \in Procs :
    /\ call[p].kind = "add"
    /\ call[p].result = "vectorized"
    /\ started = call[p].no
    /\ call[p].lostOnce
    /\ Len(call[p].indexed) = SmallDoc


\* C36: when addDocumentToNamespace succeeds on the fresh path it has upserted
\* exactly one vector per chunk of the splitter, in chunk order, the text of
\* the k-th vector being the k-th chunk; no chunk is left without a vector.
C36_OneVectorPerChunk ==
  \A p \in Procs :
    LET c == call[p]
    IN (c.kind = "add" /\ c.mode = "fresh" /\ c.result = "vectorized") =>
         /\ Len(c.indexed) = c.n
         /\ \A k \in 1..Len(c.indexed) :
              \E pt \in c.put : /\ pt.id = c.indexed[k].vectorId
                                /\ pt.text = Chunk(c.docId, k)


\* C37: addDocumentToNamespace returns {vectorized: true} only if the call
\* upserted at least one vector into the namespace, on the fresh path (also
\* when the splitter yields no chunks) and on the cache path (also when every
\* cached vector is skipped).
C37_SuccessMeansSomethingUpserted ==
  \A p \in Procs :
    (call[p].kind = "add" /\ call[p].result = "vectorized") =>
      call[p].acked # {}


\* C38: deleteDocumentFromNamespace(namespace, docId) changes only that
\* namespace and that document: the vectors and index rows of other documents
\* stay, and when the same docId has vectors in another namespace those
\* vectors and the index rows that name them stay as well.
C38_DeleteTouchesOneNamespaceOneDocument ==
  \A p \in Procs :
    LET c == call[p]
        mine == VectorIds(RowsOf(c.indexAtStart, c.docId))
    IN c.kind = "delete" =>
         /\ \A n \in NS \ {c.ns} : points[n] = c.pointsAtStart[n]
         /\ {pt \in c.pointsAtStart[c.ns] : pt.id \notin mine}
               \subseteq points[c.ns]
         /\ \A d \in DocIds \ {c.docId} :
              RowsOf(index, d) = RowsOf(c.indexAtStart, d)
         /\ \A k \in 1..Len(c.indexAtStart) :
              (/\ c.indexAtStart[k].docId = c.docId
               /\ \E n \in NS \ {c.ns} :
                    c.indexAtStart[k].vectorId \in PointIds(n)) =>
                \E j \in 1..Len(index) : index[j] = c.indexAtStart[k]


\* C40: for every ordering of stream events, stream error and close of the
\* client's response, handleStream ends a stream exactly once: endMeasurement
\* is called at most once, and once when the promise has resolved; at most one
\* terminal chunk (close: true) is written; once the stream stopped or failed
\* the close listener is gone and a later close runs no abort handler; the
\* text resolved is the text deltas that arrived before the end, in order.
C40_StreamEndsExactlyOnce ==
  LET terminal == SelectSeq(chat.chunks, LAMBDA ch : ch.close)
  IN /\ Len(chat.measurements) <= 1
     /\ chat.resolved => Len(chat.measurements) = 1
     /\ Len(terminal) <= 1
     /\ chat.ended # "none" => ~chat.closeListener
     /\ chat.lateAborts = 0
     /\ chat.resolved => chat.text = chat.arrived

====
